---- MODULE Spec2Model ----
(***************************************************************************)
(* State-machine model of the live voice pipeline (SttTtsPlugin) and of    *)
(* the room manager (TwitterSpaceClient) of client-twitter.                *)
(*                                                                         *)
(* JavaScript runs the handlers on one cooperative loop: a handler runs    *)
(* without interruption from one await of external I/O (or of a timer) to  *)
(* the next.  Each action below is one such run.  Awaits that only yield   *)
(* to the microtask queue (an async function that performs no I/O) are     *)
(* part of the run that contains them.                                     *)
(***************************************************************************)
EXTENDS Integers, Sequences, FiniteSets, TLC

(***************************************************************************)
(* Bounds of the model.                                                    *)
(***************************************************************************)
MaxChunks == 6      \* chunks one speaker may have buffered
MaxJobs == 2        \* texts handed to speakText in one run
MaxFrames == 2      \* full 10 ms frames in one synthesized reply
MaxTurns == 2       \* processAudio invocations suspended at an await
MaxRooms == 2       \* rooms launched in one run
MaxRequests == 3    \* speaker requests raised in one run
MaxTime == 11       \* the clock, in minutes, stops here
MaxSamples == 7     \* samples of PCM in one synthesized reply
MaxPcm == 2         \* samples of PCM put into one container
MaxPending == 2     \* tweets waiting for approval in the cache
MaxCalls == 3       \* calls that reach the Twitter API in one run
MaxAdds == 5        \* requests given to RequestQueue.add in one run

(***************************************************************************)
(* Program constants of SttTtsPlugin.                                      *)
(***************************************************************************)
VOLUME_WINDOW_SIZE == 100
SPEAKING_THRESHOLD_PERCENT == 5     \* SPEAKING_THRESHOLD = 0.05
AMPLITUDE_SCALE == 32768
silenceThreshold == 50

Users == {"u1", "u2"}

\* Math.abs of a sample.
Abs(x) == IF x < 0 THEN -x ELSE x

\* The largest magnitude among the first n samples.
PeakOf(samples, n) ==
    IF n = 0 THEN 0
    ELSE CHOOSE m \in {Abs(samples[i]) : i \in 1..n} :
             \A i \in 1..n : Abs(samples[i]) <= m

\* A frame of PCM: its samples, with what onAudioData reads from them, the
\* peak over all samples and the peak over the first half of them.
FrameOf(samples) ==
    [peak |-> PeakOf(samples, Len(samples)),
     head |-> PeakOf(samples, Len(samples) \div 2),
     samples |-> samples]

Frames == {FrameOf(<<0, 0>>), FrameOf(<<32767, 32767>>)}

Jobs == 1..MaxJobs

VARIABLES
    \* ---- SttTtsPlugin fields
    pcmBuffers,          \* userId -> sequence of chunks (<<>>: no entry)
    volumeBuffers,       \* userId -> sequence of normalised peaks * 32768
    ttsQueue,            \* sequence of job ids (the texts), FIFO
    isSpeaking,
    isProcessingAudio,
    userSpeakingTimer,   \* "null", "stale" (a cleared handle) or the user
                         \* whose pending timer the field refers to
    ttsAbortController,  \* 0 (null) or the loop whose controller it holds
    \* ---- the event loop around the plugin
    orphanTimers,        \* userId -> pending timers no field refers to
    turns,               \* processAudio invocations suspended at an await
    loops,               \* loop id -> processTtsQueue invocation
    nextJob,             \* id the next text handed to speakText gets
    lastPushed,          \* job of the frame the transport (janus) got last
    lastFlush,           \* what the last processAudio call did on entry
    cleanedUp,           \* cleanup() has run (the room calls it once, on stop)
    lastEvent,           \* the log of a run that keeps one: the last of
                         \* these to happen: a frame was "rejected", a turn
                         \* "failed" (a collaborator threw), met a "blank"
                         \* transcript or was "ignored" by the filter, a job's
                         \* synthesis or transcoding
                         \* failed ("jobFailed"); "off" in a run without log
    \* ---- TwitterSpaceClient fields (0: undefined)
    isSpaceRunning,
    currentSpace,        \* the Space object, named by the room it opens
    spaceId,
    startedAt,
    lastSpaceEndedAt,
    activeSpeakers,      \* sequence of [userId, startTime]
    speakerQueue,        \* sequence of requests (named by their user)
    decisionOptions,
    \* ---- the transport and the event loop around the manager
    now,                 \* Date.now(), in minutes
    nextRoom,            \* id the next room gets
    liveRooms,           \* rooms initialized and not yet stopped
    janusSpeakers,       \* participants.speakers of the current room
    handlersOn,          \* rooms whose event handlers are registered
    routine,             \* the periodic check: its position and locals
    reqs,                \* request -> position of its speakerRequest handler
                         \* and the room id it asked the report for; "lost"
                         \* once the tick took it from the queue and did not
                         \* admit it
    idle,                \* the idleTimeout handler: its position and locals
    lastReport,          \* the log of a run that keeps one: what the last
                         \* getAudioSpaceById of a tick gave, and when
    lastCheck,           \* the log of a run that keeps one: what the last
                         \* shouldLaunchSpace drew and the hour it read
    wavBuffer,           \* the last call of convertPcmToWavInMemory in a
                         \* run that follows them: its arguments and the
                         \* bytes it returned
    \* ---- TwitterPostClient
    postClient,          \* isDryRun and approvalRequired, the pending
                         \* tweets in the cache with the reactions to their
                         \* Discord messages, the calls that reached the
                         \* Twitter API, the dry-run notices logged
    \* ---- RequestQueue
    requestQueue         \* queue and processing, the position of
                         \* processQueue, the state of the promise of each
                         \* request given to add, and the requests in the
                         \* order in which they were called

\* What a frame, a timer or a collaborator's answer can change.
pluginState == <<pcmBuffers, volumeBuffers, ttsQueue, isSpeaking,
                 isProcessingAudio, userSpeakingTimer, ttsAbortController,
                 orphanTimers, turns, loops, nextJob, lastPushed, lastFlush,
                 cleanedUp>>

pluginVars == <<pluginState, lastEvent, wavBuffer, postClient, requestQueue>>

\* The fields of the manager, the transport and the event loop.
spaceState == <<isSpaceRunning, currentSpace, spaceId, startedAt,
                lastSpaceEndedAt, activeSpeakers, speakerQueue,
                decisionOptions, now, nextRoom, liveRooms, janusSpeakers,
                handlersOn, routine, reqs, idle>>

spaceVars == <<spaceState, lastReport, lastCheck>>

vars == <<pluginVars, spaceVars>>

NoLoop == [pc |-> "idle", job |-> 0, aborted |-> FALSE, left |-> 0]

EmptyMap == [u \in Users |-> <<>>]

\* The post client of the runs that do not follow it: it is not started.
NotStarted ==
    [isDryRun |-> FALSE, approvalRequired |-> FALSE, pendingTweets |-> <<>>,
     calls |-> <<>>, dryRunLog |-> {}]

\* No container built yet.
NoWav == [pcm |-> <<>>, rate |-> [hi |-> 0, lo |-> 0], bytes |-> <<>>]

InitSttTts ==
    /\ pcmBuffers = EmptyMap
    /\ volumeBuffers = EmptyMap
    /\ ttsQueue = <<>>
    /\ isSpeaking = FALSE
    /\ isProcessingAudio = FALSE
    /\ userSpeakingTimer = "null"
    /\ ttsAbortController = 0
    /\ orphanTimers = [u \in Users |-> 0]
    /\ turns = <<>>
    /\ loops = [l \in Jobs |-> NoLoop]
    /\ nextJob = 1
    /\ lastPushed = 0
    /\ lastFlush = "none"
    /\ cleanedUp = FALSE
    /\ wavBuffer = NoWav

\* queue = [], processing = false; nothing has been given to add.
NoRequests ==
    [queue |-> <<>>, processing |-> FALSE, pc |-> "idle", added |-> 0,
     promise |-> <<>>, called |-> <<>>]

InitPlugin ==
    /\ InitSttTts
    /\ postClient = NotStarted
    /\ requestQueue = NoRequests

Requests == 1..MaxRequests

Rooms == 1..MaxRooms

\* runtime.character.twitterSpaces in these runs; durations in minutes.
Settings ==
    [maxSpeakers |-> 1,
     typicalDurationMinutes |-> 8,
     minIntervalBetweenSpacesMinutes |-> 6,
     businessHoursOnly |-> FALSE,
     speakerMaxDurationMinutes |-> 4]

\* Minutes an empty room is kept before the tick stops it.
EMPTY_ROOM_MINUTES == 5

\* Minutes that pass between two runs of the periodic check.
ClockSteps == {5}

\* The periodic check between two runs, its locals dropped.
Sleeping == [pc |-> "sleep", i |-> 0, req |-> 0, ok |-> FALSE,
             speakers |-> <<>>, listeners |-> 0, now0 |-> 0, extras |-> <<>>,
             room |-> 0]

NoHandler == [pc |-> "none"]

\* A speakerRequest handler at position pc, outside its report call.
Handler(pc) == [pc |-> pc, room |-> 0]

InitSpaceOf(options) ==
    /\ isSpaceRunning = FALSE
    /\ currentSpace = 0
    /\ spaceId = 0
    /\ startedAt = 0
    /\ lastSpaceEndedAt = 0
    /\ activeSpeakers = <<>>
    /\ speakerQueue = <<>>
    /\ decisionOptions = options
    /\ now = 1
    /\ nextRoom = 1
    /\ liveRooms = {}
    /\ janusSpeakers = [x \in Rooms |-> <<>>]
    /\ handlersOn = {}
    /\ routine = Sleeping
    /\ reqs = [r \in Requests |-> Handler("new")]
    /\ idle = NoHandler

InitSpace == InitSpaceOf(Settings)

\* The log of the ticks before any tick, in a run without log.
NoReport == [on |-> FALSE, ok |-> FALSE, speakers |-> 0, listeners |-> 0,
             now0 |-> 0]

\* The log of the launch decisions before any, in a run without log.
NoCheck == [on |-> FALSE, draw |-> FALSE, inHours |-> FALSE]

Init ==
    /\ InitPlugin
    /\ InitSpace
    /\ lastEvent = "off"
    /\ lastReport = NoReport
    /\ lastCheck = NoCheck

\* The same state, in a run that keeps the log of the plugin.
InitLogged ==
    /\ InitPlugin
    /\ InitSpace
    /\ lastEvent = "none"
    /\ lastReport = NoReport
    /\ lastCheck = NoCheck

\* The same state, in a run that keeps the log of the ticks.
InitManaged ==
    /\ InitPlugin
    /\ InitSpace
    /\ lastEvent = "off"
    /\ lastReport = [NoReport EXCEPT !.on = TRUE]
    /\ lastCheck = NoCheck

\* The log after event e.
Note(e) == IF lastEvent = "off" THEN "off" ELSE e

(***************************************************************************)
(* Helpers.                                                                *)
(***************************************************************************)
RECURSIVE Sum(_)
Sum(w) == IF w = <<>> THEN 0 ELSE Head(w) + Sum(Tail(w))

RemoveAt(s, i) == [k \in 1..(Len(s) - 1) |-> IF k < i THEN s[k] ELSE s[k + 1]]

\* volumeBuffer.push(maxAmplitude); if longer than the window, shift().
PushWindow(w, a) ==
    LET w1 == Append(w, a)
    IN  IF Len(w1) > VOLUME_WINDOW_SIZE THEN Tail(w1) ELSE w1

\* avgVolume = sum / VOLUME_WINDOW_SIZE > SPEAKING_THRESHOLD, the peaks kept
\* as integers (peak = maxAmplitude * 32768).
AvgTriggers(w) ==
    Sum(w) * 100 > SPEAKING_THRESHOLD_PERCENT * AMPLITUDE_SCALE * VOLUME_WINDOW_SIZE

\* chunks.reduce((acc, c) => acc + c.length, 0), from chunk k on.
RECURSIVE TotalLen(_, _)
TotalLen(chunks, k) ==
    IF k > Len(chunks) THEN 0
    ELSE Len(chunks[k].samples) + TotalLen(chunks, k + 1)

\* merged.set(c, offset): the samples of c written over merged from offset.
TypedArraySet(merged, c, offset) ==
    [i \in 1..Len(merged) |->
        IF i > offset /\ i <= offset + Len(c) THEN c[i - offset]
        ELSE merged[i]]

\* The loop over the chunks from chunk k on, offset advanced by each length.
RECURSIVE MergeFrom(_, _, _, _)
MergeFrom(chunks, k, offset, merged) ==
    IF k > Len(chunks) THEN merged
    ELSE MergeFrom(chunks, k + 1, offset + Len(chunks[k].samples),
                   TypedArraySet(merged, chunks[k].samples, offset))

MergeNewestFirst(chunks) ==
    MergeFrom([k \in 1..Len(chunks) |-> chunks[Len(chunks) + 1 - k]], 1, 0,
              [i \in 1..TotalLen(chunks, 1) |-> 0])

\* The chunks of one flush, merged into one Int16Array of the total length.
Merge(chunks) ==
    MergeFrom(chunks, 1, 0, [i \in 1..TotalLen(chunks, 1) |-> 0])

(***************************************************************************)
(* processTtsQueue.                                                        *)
(***************************************************************************)
\* The head of the while loop, run by loop l on queue q: an empty queue ends
\* the loop and clears isSpeaking; otherwise the next text is shifted, a
\* fresh AbortController is stored in the shared field and elevenLabsTts
\* is called.  sp is isSpeaking as the caller left it.
RunLoop(l, q, sp) ==
    IF q = <<>>
    THEN /\ ttsQueue' = q
         /\ loops' = [loops EXCEPT ![l] = NoLoop]
         /\ ttsAbortController' = 0
         /\ isSpeaking' = FALSE
    ELSE /\ ttsQueue' = Tail(q)
         /\ loops' = [loops EXCEPT ![l] = [pc |-> "tts", job |-> Head(q),
                                             aborted |-> FALSE, left |-> 0]]
         /\ ttsAbortController' = l
         /\ isSpeaking' = sp

\* The end of one iteration of loop l.  finally clears the shared field,
\* whichever controller it holds.  returned: the iteration left through one
\* of the two "return" statements taken when its own signal is aborted.
FinishIteration(l, returned) ==
    IF returned
    THEN /\ loops' = [loops EXCEPT ![l] = NoLoop]
         /\ ttsAbortController' = 0
         /\ UNCHANGED <<ttsQueue, isSpeaking>>
    ELSE RunLoop(l, ttsQueue, isSpeaking)

\* this.ttsAbortController?.signal.aborted, as streamToJanus reads it.
SharedSignalAborted ==
    /\ ttsAbortController # 0
    /\ loops[ttsAbortController].aborted

\* One pass of the for loop of streamToJanus in loop l, n full frames left.
StreamStep(l, n) ==
    IF n = 0 \/ SharedSignalAborted
    THEN /\ FinishIteration(l, loops[l].aborted)
         /\ UNCHANGED lastPushed
    ELSE /\ lastPushed' = loops[l].job
         /\ loops' = [loops EXCEPT ![l].pc = "stream", ![l].left = n - 1]
         /\ UNCHANGED <<ttsQueue, isSpeaking, ttsAbortController>>

\* FRAME_SIZE = Math.floor(sampleRate * 0.01): the samples of 10 ms.
FrameSize(sampleRate) == sampleRate \div 100

MoreFramesUntilEnd(samples, offset, frameSize) == offset < Len(samples)

\* The condition of the for loop of streamToJanus.
MoreFrames(samples, offset, frameSize) == offset + frameSize <= Len(samples)

\* new Int16Array(FRAME_SIZE) with samples.subarray(offset, offset +
\* FRAME_SIZE) set into it; subarray stops at the end of samples.
FrameAt(samples, offset, frameSize) ==
    [i \in 1..frameSize |->
        IF offset + i <= Len(samples) THEN samples[offset + i] ELSE 0]

\* One pass of the for loop of streamToJanus in loop l, which keeps the
\* PCM, the rate and the offset, and the frames it gave to pushLocalAudio.
StreamPcmStep(l, pcm, rate, offset, pushed) ==
    IF ~MoreFrames(pcm, offset, FrameSize(rate)) \/ SharedSignalAborted
    THEN /\ FinishIteration(l, loops[l].aborted)
         /\ UNCHANGED lastPushed
    ELSE /\ lastPushed' = loops[l].job
         /\ loops' = [loops EXCEPT ![l] =
                [pc |-> "stream", job |-> loops[l].job,
                 aborted |-> loops[l].aborted, left |-> 0,
                 samples |-> pcm, rate |-> rate,
                 offset |-> offset + FrameSize(rate),
                 pushed |-> Append(pushed,
                                   FrameAt(pcm, offset, FrameSize(rate)))]]
         /\ UNCHANGED <<ttsQueue, isSpeaking, ttsAbortController>>

\* speakText(text), the text getting id j; loop j is the loop it may start.
SpeakText(j, sp) ==
    IF ~sp
    THEN RunLoop(j, Append(ttsQueue, j), TRUE)
    ELSE /\ ttsQueue' = Append(ttsQueue, j)
         /\ UNCHANGED <<loops, ttsAbortController, isSpeaking>>

\* An error handler that gives up the loop.
CaughtEndsLoop(l) == FinishIteration(l, TRUE)

\* The catch block of processTtsQueue in loop l: the error is logged, finally
\* runs and the while loop goes on.
Caught(l) == FinishIteration(l, FALSE)

\* elevenLabsTts returns (ok) or throws.
TtsReturns(l, ok) ==
    /\ UNCHANGED <<spaceVars, wavBuffer, postClient, requestQueue>>
    /\ lastEvent' = IF ok THEN lastEvent ELSE Note("jobFailed")
    /\ loops[l].pc = "tts"
    /\ IF ok
       THEN /\ loops' = [loops EXCEPT ![l].pc = "convert"]
            /\ UNCHANGED <<ttsQueue, isSpeaking, ttsAbortController>>
       ELSE Caught(l)
    /\ UNCHANGED <<pcmBuffers, volumeBuffers, isProcessingAudio,
                   userSpeakingTimer, orphanTimers, turns, nextJob, lastPushed,
                   lastFlush, cleanedUp>>

\* convertMp3ToPcm returns PCM holding n full frames (ok) or rejects.
ConvertReturns(l, ok, n) ==
    /\ UNCHANGED <<spaceVars, wavBuffer, postClient, requestQueue>>
    /\ lastEvent' = IF ok THEN lastEvent ELSE Note("jobFailed")
    /\ loops[l].pc = "convert"
    /\ IF ~ok
       THEN Caught(l) /\ UNCHANGED lastPushed
       ELSE IF loops[l].aborted
            THEN FinishIteration(l, TRUE) /\ UNCHANGED lastPushed
            ELSE StreamStep(l, n)
    /\ UNCHANGED <<pcmBuffers, volumeBuffers, isProcessingAudio,
                   userSpeakingTimer, orphanTimers, turns, nextJob,
                   lastFlush, cleanedUp>>

\* The 10 ms pacing wait of streamToJanus ends.
StreamWake(l) ==
    /\ UNCHANGED <<spaceVars, wavBuffer, postClient, requestQueue>>
    /\ UNCHANGED lastEvent
    /\ loops[l].pc = "stream"
    /\ StreamStep(l, loops[l].left)
    /\ UNCHANGED <<pcmBuffers, volumeBuffers, isProcessingAudio,
                   userSpeakingTimer, orphanTimers, turns, nextJob,
                   lastFlush, cleanedUp>>

\* convertMp3ToPcm returns the samples pcm; streamToJanus is called with
\* them and the rate.
ConvertReturnsPcm(l, pcm, rate) ==
    /\ UNCHANGED <<spaceVars, wavBuffer, postClient, requestQueue>>
    /\ UNCHANGED lastEvent
    /\ loops[l].pc = "convert"
    /\ IF loops[l].aborted
       THEN FinishIteration(l, TRUE) /\ UNCHANGED lastPushed
       ELSE StreamPcmStep(l, pcm, rate, 0, <<>>)
    /\ UNCHANGED <<pcmBuffers, volumeBuffers, isProcessingAudio,
                   userSpeakingTimer, orphanTimers, turns, nextJob,
                   lastFlush, cleanedUp>>

\* The 10 ms pacing wait of streamToJanus ends, the PCM kept by the loop.
StreamPcmWake(l) ==
    /\ UNCHANGED <<spaceVars, wavBuffer, postClient, requestQueue>>
    /\ UNCHANGED lastEvent
    /\ loops[l].pc = "stream"
    /\ StreamPcmStep(l, loops[l].samples, loops[l].rate, loops[l].offset,
                     loops[l].pushed)
    /\ UNCHANGED <<pcmBuffers, volumeBuffers, isProcessingAudio,
                   userSpeakingTimer, orphanTimers, turns, nextJob,
                   lastFlush, cleanedUp>>

\* speakText called from outside the pipeline (speakFiller of the manager).
SpeakFiller ==
    /\ UNCHANGED <<spaceVars, wavBuffer, postClient, requestQueue>>
    /\ UNCHANGED lastEvent
    /\ nextJob <= MaxJobs
    /\ SpeakText(nextJob, isSpeaking)
    /\ nextJob' = nextJob + 1
    /\ UNCHANGED <<pcmBuffers, volumeBuffers, isProcessingAudio,
                   userSpeakingTimer, orphanTimers, turns, lastPushed, lastFlush, cleanedUp>>

(***************************************************************************)
(* onAudioData, the silence timer and cleanup.                             *)
(***************************************************************************)
\* A gate that lets every frame through unless a turn is in flight.
GateRejectsBusyOnly(f) == isProcessingAudio

\* The two early returns of onAudioData: a turn is in flight, or the peak
\* of the frame is below silenceThreshold.
GateRejects(f) == isProcessingAudio \/ f.peak < silenceThreshold

\* onAudioData(data): frame f of speaker u arrives.
OnAudioData(u, f) ==
    /\ UNCHANGED <<spaceVars, wavBuffer, postClient, requestQueue>>
    /\ Len(pcmBuffers[u]) < MaxChunks
    /\ IF GateRejects(f)
       THEN /\ lastEvent' = Note("rejected")
            /\ UNCHANGED pluginState
       ELSE /\ pcmBuffers' = [pcmBuffers EXCEPT ![u] = Append(@, f)]
            /\ lastEvent' = Note("accepted")
            /\ IF ~isSpeaking
               THEN \* clearTimeout of the old timer, a new one for u
                    /\ userSpeakingTimer' = u
                    /\ UNCHANGED <<volumeBuffers, loops, isSpeaking>>
               ELSE LET w == PushWindow(volumeBuffers[u], f.head)
                    IN  /\ userSpeakingTimer' =
                              IF userSpeakingTimer = "null" THEN "null"
                              ELSE "stale"
                        /\ IF AvgTriggers(w)
                           THEN /\ volumeBuffers' =
                                      [volumeBuffers EXCEPT ![u] = <<>>]
                                /\ IF ttsAbortController # 0
                                   THEN /\ loops' = [loops EXCEPT
                                             ![ttsAbortController].aborted = TRUE]
                                        /\ isSpeaking' = FALSE
                                   ELSE UNCHANGED <<loops, isSpeaking>>
                           ELSE /\ volumeBuffers' =
                                      [volumeBuffers EXCEPT ![u] = w]
                                /\ UNCHANGED <<loops, isSpeaking>>
            /\ UNCHANGED <<ttsQueue, isProcessingAudio, ttsAbortController,
                           orphanTimers, turns, nextJob, lastPushed, lastFlush, cleanedUp>>

\* A processAudio that starts although a turn is in flight.
BusyOnEntryNotTested == FALSE

\* The guard that opens processAudio.
BusyOnEntry == isProcessingAudio

\* A processAudio whose flag is left as it was on some way out.
ReleaseBusySkipped(held) == held

\* isProcessingAudio as the finally block of processAudio leaves it; held
\* is the flag when the block is entered.
ReleaseBusy(held) == FALSE

\* processAudio(u) up to its first await of I/O (the transcription call):
\* dropped when busy; otherwise it takes u's chunks, clears the whole map
\* and, unless there are no chunks, merges them and calls transcribe.
ProcessAudio(u) ==
    IF BusyOnEntry
    THEN /\ lastFlush' = "dropped"
         /\ UNCHANGED <<isProcessingAudio, pcmBuffers, turns>>
    ELSE IF pcmBuffers[u] = <<>>
    THEN /\ lastFlush' = "empty"
         /\ pcmBuffers' = EmptyMap
         /\ isProcessingAudio' = ReleaseBusy(TRUE)
         /\ UNCHANGED turns
    ELSE /\ lastFlush' = "started"
         /\ pcmBuffers' = EmptyMap
         /\ isProcessingAudio' = TRUE
         /\ turns' = Append(turns, [userId |-> u, pc |-> "stt",
                                    chunks |-> Merge(pcmBuffers[u]),
                                    text |-> "none", verdict |-> "none",
                                    reply |-> FALSE])

\* The silence timer the field refers to expires: the callback clears the
\* field and calls processAudio.
TimerFires(u) ==
    /\ UNCHANGED <<spaceVars, wavBuffer, postClient, requestQueue>>
    /\ UNCHANGED lastEvent
    /\ userSpeakingTimer = u
    /\ Len(turns) < MaxTurns
    /\ userSpeakingTimer' = "null"
    /\ ProcessAudio(u)
    /\ UNCHANGED <<volumeBuffers, ttsQueue, isSpeaking, ttsAbortController,
                   orphanTimers, loops, nextJob, lastPushed, cleanedUp>>

\* A pending timer whose handle cleanup dropped expires: its callback too
\* clears the field, so a timer the field referred to is pending still.
OrphanTimerFires(u) ==
    /\ UNCHANGED <<spaceVars, wavBuffer, postClient, requestQueue>>
    /\ UNCHANGED lastEvent
    /\ orphanTimers[u] > 0
    /\ Len(turns) < MaxTurns
    /\ orphanTimers' =
           [v \in Users |-> orphanTimers[v] - (IF v = u THEN 1 ELSE 0)
                                            + (IF v = userSpeakingTimer THEN 1 ELSE 0)]
    /\ userSpeakingTimer' = "null"
    /\ ProcessAudio(u)
    /\ UNCHANGED <<volumeBuffers, ttsQueue, isSpeaking, ttsAbortController,
                   loops, nextJob, lastPushed, cleanedUp>>

\* cleanup(): the field is set to null without clearTimeout.
Cleanup ==
    /\ UNCHANGED <<spaceVars, wavBuffer, postClient, requestQueue>>
    /\ UNCHANGED lastEvent
    /\ ~cleanedUp
    /\ cleanedUp' = TRUE
    /\ pcmBuffers' = EmptyMap
    /\ orphanTimers' =
           [v \in Users |-> orphanTimers[v] + (IF v = userSpeakingTimer THEN 1 ELSE 0)]
    /\ userSpeakingTimer' = "null"
    /\ ttsQueue' = <<>>
    /\ isSpeaking' = FALSE
    /\ volumeBuffers' = EmptyMap
    /\ UNCHANGED <<isProcessingAudio, ttsAbortController, turns, loops,
                   nextJob, lastPushed, lastFlush>>

(***************************************************************************)
(* processAudio after the flush: transcription, handleUserMessage, reply.  *)
(***************************************************************************)
\* What the pipeline reads from a transcript that is not blank: shorter
\* than 3 characters; holding a lose-interest word (under 50 characters);
\* holding an ignore word (under 8 characters); holding the character's
\* name and none of those; none of all that.
TranscriptKinds == {"short", "banned", "ack", "named", "plain"}

\* The bounds on message.content.text.length in _shouldIgnore.
MIN_TEXT_LENGTH == 3

LOSE_INTEREST_BELOW == 50

IGNORE_WORDS_BELOW == 8

\* What _shouldIgnore reads from a transcript of each kind: its length,
\* whether it includes one of loseInterestWords, one of ignoreWords.  Two
\* more kinds: "longBanned" holds a lose-interest word in 60 characters,
\* "longAck" holds an ignore word in 12.
TextOf(kind) ==
    [length |-> CASE kind = "short" -> 2
                  [] kind = "banned" -> 7
                  [] kind = "ack" -> 3
                  [] kind = "longBanned" -> 60
                  [] kind = "longAck" -> 12
                  [] OTHER -> 20,
     loseInterest |-> kind \in {"banned", "longBanned"},
     ignoreWord |-> kind \in {"ack", "longAck"}]

ShouldIgnoreShortOnly(kind) == TextOf(kind).length < MIN_TEXT_LENGTH

\* _shouldIgnore(message)
ShouldIgnore(kind) ==
    \/ TextOf(kind).length < MIN_TEXT_LENGTH
    \/ TextOf(kind).length < LOSE_INTEREST_BELOW /\ TextOf(kind).loseInterest
    \/ TextOf(kind).length < IGNORE_WORDS_BELOW /\ TextOf(kind).ignoreWord

\* lowerMessage.includes(characterName) in _shouldRespond
ContainsName(kind) == kind = "named"

\* processAudio invocation i leaves through return or catch; finally runs.
EndTurn(i) ==
    /\ turns' = RemoveAt(turns, i)
    /\ isProcessingAudio' = ReleaseBusy(TRUE)
    /\ UNCHANGED <<pcmBuffers, volumeBuffers, ttsQueue, isSpeaking,
                   userSpeakingTimer, ttsAbortController, orphanTimers,
                   loops, nextJob, lastPushed, lastFlush, cleanedUp>>

\* A catch block that answers the speaker with an apology.
ThrownSpeaksApology(i) ==
    /\ nextJob <= MaxJobs
    /\ turns' = RemoveAt(turns, i)
    /\ isProcessingAudio' = ReleaseBusy(TRUE)
    /\ SpeakText(nextJob, isSpeaking)
    /\ nextJob' = nextJob + 1
    /\ UNCHANGED <<pcmBuffers, volumeBuffers, userSpeakingTimer, orphanTimers,
                   lastPushed, lastFlush, cleanedUp>>

\* A collaborator throws in processAudio invocation i: the catch block of
\* processAudio logs the error and finally runs.
Thrown(i) == EndTurn(i)

\* What transcribe can do: throw ("fail"), return null or the empty string
\* ("empty"), return white space only ("spaces"), or return text of one of
\* the kinds that handleUserMessage tells apart.
SttResults == {"fail", "empty", "spaces"} \cup TranscriptKinds

\* A test of the transcript that does not trim it.
BlankTranscriptNotTrimmed(r) == r = "empty"

\* !sttText || !sttText.trim()
BlankTranscript(r) == r \in {"empty", "spaces"}

\* transcribe returns r, one of SttResults.
\* The merged PCM is not read again after the call; the model drops it.
SttReturns(i, r) ==
    /\ UNCHANGED <<spaceVars, wavBuffer, postClient, requestQueue>>
    /\ lastEvent' = IF r = "fail" THEN Note("failed")
                    ELSE IF r \in {"empty", "spaces"} THEN Note("blank")
                    ELSE lastEvent
    /\ i \in 1..Len(turns)
    /\ turns[i].pc = "stt"
    /\ IF r = "fail"
       THEN Thrown(i)
       ELSE IF BlankTranscript(r)
       THEN EndTurn(i)
       ELSE /\ turns' = [turns EXCEPT ![i].pc = "state", ![i].text = r,
                                      ![i].chunks = <<>>]
            /\ UNCHANGED <<pcmBuffers, volumeBuffers, ttsQueue, isSpeaking,
                           isProcessingAudio, userSpeakingTimer,
                           ttsAbortController, orphanTimers, loops, nextJob,
                           lastPushed, lastFlush, cleanedUp>>

\* The runtime calls that open handleUserMessage (ensureUserExists ...
\* updateRecentMessageState) return or one of them throws; then
\* _shouldIgnore and the name test of _shouldRespond run.
StateReturns(i, ok) ==
    /\ UNCHANGED <<spaceVars, wavBuffer, postClient, requestQueue>>
    /\ i \in 1..Len(turns)
    /\ turns[i].pc = "state"
    /\ lastEvent' = IF ok /\ ShouldIgnore(turns[i].text)
                    THEN Note("ignored") ELSE lastEvent
    /\ IF ~ok
       THEN Thrown(i)
       ELSE IF ShouldIgnore(turns[i].text)
       THEN EndTurn(i)
       ELSE /\ turns' = [turns EXCEPT ![i].pc =
                            IF ContainsName(turns[i].text) THEN "generate"
                            ELSE "classify"]
            /\ UNCHANGED <<pcmBuffers, volumeBuffers, ttsQueue, isSpeaking,
                           isProcessingAudio, userSpeakingTimer,
                           ttsAbortController, orphanTimers, loops, nextJob,
                           lastPushed, lastFlush, cleanedUp>>

ClassifierResults == {"RESPOND", "IGNORE", "STOP", "OTHER", "fail"}

\* A decision that goes on unless the classifier says IGNORE or STOP.
RespondsUnlessTold(r) == r \notin {"IGNORE", "STOP"}

\* response === "RESPOND"
Responds(r) == r = "RESPOND"

\* generateShouldRespond returns r or throws.
ClassifyReturns(i, r) ==
    /\ UNCHANGED <<spaceVars, wavBuffer, postClient, requestQueue>>
    /\ lastEvent' = IF r = "fail" THEN Note("failed") ELSE lastEvent
    /\ i \in 1..Len(turns)
    /\ turns[i].pc = "classify"
    /\ IF r = "fail"
       THEN Thrown(i)
       ELSE IF ~Responds(r)
       THEN EndTurn(i)
       ELSE /\ turns' = [turns EXCEPT ![i].pc = "generate",
                                      ![i].verdict = r]
            /\ UNCHANGED <<pcmBuffers, volumeBuffers, ttsQueue, isSpeaking,
                           isProcessingAudio, userSpeakingTimer,
                           ttsAbortController, orphanTimers, loops, nextJob,
                           lastPushed, lastFlush, cleanedUp>>

GeneratorResults == {"fail", "null", "empty", "text"}

\* generateMessageResponse returns r or throws; a null response throws at
\* response.source.  Then databaseAdapter.log is awaited.
GenerateReturns(i, r) ==
    /\ UNCHANGED <<spaceVars, wavBuffer, postClient, requestQueue>>
    /\ lastEvent' = IF r \in {"fail", "null"} THEN Note("failed")
                    ELSE lastEvent
    /\ i \in 1..Len(turns)
    /\ turns[i].pc = "generate"
    /\ IF r \in {"fail", "null"}
       THEN Thrown(i)
       ELSE /\ turns' = [turns EXCEPT ![i].pc = "persist",
                                      ![i].reply = (r = "text")]
            /\ UNCHANGED <<pcmBuffers, volumeBuffers, ttsQueue, isSpeaking,
                           isProcessingAudio, userSpeakingTimer,
                           ttsAbortController, orphanTimers, loops, nextJob,
                           lastPushed, lastFlush, cleanedUp>>

\* databaseAdapter.log and, for a reply, createMemory return or one throws.
\* With a reply: isProcessingAudio = false, volumeBuffers.clear(),
\* speakText(reply), and the finally block, in one run.
PersistReturns(i, ok) ==
    /\ UNCHANGED <<spaceVars, wavBuffer, postClient, requestQueue>>
    /\ UNCHANGED lastEvent
    /\ i \in 1..Len(turns)
    /\ turns[i].pc = "persist"
    /\ IF ~ok
       THEN Thrown(i)
       ELSE IF ~turns[i].reply
       THEN EndTurn(i)
       ELSE /\ nextJob <= MaxJobs
            /\ turns' = RemoveAt(turns, i)
            /\ isProcessingAudio' = ReleaseBusy(FALSE)
            /\ volumeBuffers' = EmptyMap
            /\ SpeakText(nextJob, isSpeaking)
            /\ nextJob' = nextJob + 1
            /\ UNCHANGED <<pcmBuffers, userSpeakingTimer, orphanTimers,
                           lastPushed, lastFlush, cleanedUp>>

(***************************************************************************)
(* The plugin while it is attached to a room, and with cleanup.            *)
(***************************************************************************)
\* The speakers whose audio the transport delivers in these runs.
Speakers == {"u1"}

NextLive ==
    \/ \E u \in Speakers, f \in Frames : OnAudioData(u, f)
    \/ \E u \in Speakers : TimerFires(u)
    \/ \E i \in 1..MaxTurns, r \in SttResults : SttReturns(i, r)
    \/ \E i \in 1..MaxTurns, ok \in BOOLEAN : StateReturns(i, ok)
    \/ \E i \in 1..MaxTurns, r \in ClassifierResults : ClassifyReturns(i, r)
    \/ \E i \in 1..MaxTurns, r \in GeneratorResults : GenerateReturns(i, r)
    \/ \E i \in 1..MaxTurns, ok \in BOOLEAN : PersistReturns(i, ok)
    \/ SpeakFiller
    \/ \E l \in Jobs, ok \in BOOLEAN : TtsReturns(l, ok)
    \/ \E l \in Jobs, ok \in BOOLEAN, n \in 0..MaxFrames : ConvertReturns(l, ok, n)
    \/ \E l \in Jobs : StreamWake(l)

NextVoice ==
    \/ NextLive
    \/ \E u \in Speakers : OrphanTimerFires(u)
    \/ Cleanup

SpecLive == Init /\ [][NextLive]_vars

SpecVoice == Init /\ [][NextVoice]_vars

\* The attached plugin, in runs that keep the log.
SpecTurn == InitLogged /\ [][NextLive]_vars

(***************************************************************************)
(* TwitterSpaceClient: launching a room.                                   *)
(*                                                                         *)
(* The transport (Space, scraper) is outside the repository: a call takes  *)
(* effect on it when it is made and its fate, success or failure, is known *)
(* to the caller when the call returns.  speakFiller is an await of the    *)
(* text generator and of a pause; the plugin it speaks through belongs to  *)
(* the room, and what speakText does there is SpeakFiller above.           *)
(***************************************************************************)
ShouldLaunchSpaceAnyHour(draw, inHours) ==
    /\ draw
    /\ \/ lastSpaceEndedAt = 0
       \/ now - lastSpaceEndedAt >= decisionOptions.minIntervalBetweenSpacesMinutes

\* shouldLaunchSpace(): draw is r <= randomChance, inHours is 9 <= hour < 17.
ShouldLaunchSpace(draw, inHours) ==
    /\ draw
    /\ decisionOptions.businessHoursOnly => inHours
    /\ \/ lastSpaceEndedAt = 0
       \/ now - lastSpaceEndedAt >= decisionOptions.minIntervalBetweenSpacesMinutes

\* startSpace(config) up to the await of initialize; with ok the call
\* opens the room.
StartSpace(ok) ==
    /\ currentSpace' = nextRoom
    /\ nextRoom' = nextRoom + 1
    /\ isSpaceRunning' = FALSE
    /\ spaceId' = 0
    /\ startedAt' = now
    /\ activeSpeakers' = <<>>
    /\ speakerQueue' = <<>>
    /\ routine' = [Sleeping EXCEPT !.pc = "init", !.room = nextRoom,
                                   !.ok = ok]
    /\ liveRooms' = IF ok THEN liveRooms \cup {nextRoom} ELSE liveRooms

\* The log after a launch decision that drew draw in the hour inHours.
Checked(draw, inHours) ==
    IF ~lastCheck.on THEN lastCheck
    ELSE [on |-> TRUE, draw |-> draw, inHours |-> inHours]

\* The timer of the periodic check expires: routine() up to its first await
\* of I/O.  Idle, it decides on a launch; with a room, it starts a tick.
RoutineWakes(draw, inHours, ok) ==
    /\ routine.pc = "sleep"
    /\ IF ~isSpaceRunning
       THEN /\ lastCheck' = Checked(draw, inHours)
            /\ IF ShouldLaunchSpace(draw, inHours)
               THEN /\ nextRoom <= MaxRooms
                    /\ StartSpace(ok)
                    /\ UNCHANGED <<lastSpaceEndedAt, decisionOptions, now,
                                   janusSpeakers, handlersOn, reqs, idle>>
               ELSE UNCHANGED spaceState
       ELSE /\ UNCHANGED lastCheck
            /\ IF spaceId = 0 \/ currentSpace = 0
               THEN UNCHANGED spaceState
               ELSE /\ routine' = [Sleeping EXCEPT !.pc = "report",
                                                   !.room = spaceId]
                    /\ UNCHANGED <<isSpaceRunning, currentSpace, spaceId,
                                   startedAt, lastSpaceEndedAt,
                                   activeSpeakers, speakerQueue,
                                   decisionOptions, now, nextRoom, liveRooms,
                                   janusSpeakers, handlersOn, reqs, idle>>
    /\ UNCHANGED <<pluginVars, lastReport>>

LaunchFailsNotRescheduled ==
    /\ isSpaceRunning' = FALSE
    /\ routine' = [Sleeping EXCEPT !.pc = "done"]

\* The catch block of startSpace; routine's own catch re-arms the timer.
LaunchFails ==
    /\ isSpaceRunning' = FALSE
    /\ routine' = Sleeping

\* currentSpace.initialize returns the room's id or throws.  The plugins
\* are installed on this.currentSpace, which throws if a stopSpace has
\* cleared the field meanwhile.  Then sendTweet is called.
InitializeReturns ==
    /\ routine.pc = "init"
    /\ IF ~routine.ok
       THEN /\ LaunchFails
            /\ UNCHANGED spaceId
       ELSE /\ spaceId' = routine.room
            /\ IF currentSpace = 0
               THEN LaunchFails
               ELSE /\ isSpaceRunning' = TRUE
                    /\ routine' = [routine EXCEPT !.pc = "tweet"]
    /\ UNCHANGED <<currentSpace, startedAt, lastSpaceEndedAt, activeSpeakers,
                   speakerQueue, decisionOptions, now, nextRoom, liveRooms,
                   janusSpeakers, handlersOn, reqs, idle>>
    /\ UNCHANGED <<pluginVars, lastReport, lastCheck>>

\* scraper.sendTweet returns or throws; then the welcome filler is awaited.
SendTweetReturns(ok) ==
    /\ routine.pc = "tweet"
    /\ IF ok
       THEN /\ routine' = [routine EXCEPT !.pc = "welcome"]
            /\ UNCHANGED isSpaceRunning
       ELSE LaunchFails
    /\ UNCHANGED <<currentSpace, spaceId, startedAt, lastSpaceEndedAt,
                   activeSpeakers, speakerQueue, decisionOptions, now,
                   nextRoom, liveRooms, janusSpeakers, handlersOn, reqs, idle>>
    /\ UNCHANGED <<pluginVars, lastReport, lastCheck>>

\* The welcome filler is over: the event handlers are registered on
\* this.currentSpace, which throws if the field has been cleared.
WelcomeReturns ==
    /\ routine.pc = "welcome"
    /\ IF currentSpace = 0
       THEN LaunchFails /\ UNCHANGED handlersOn
       ELSE /\ handlersOn' = handlersOn \cup {currentSpace}
            /\ routine' = Sleeping
            /\ UNCHANGED isSpaceRunning
    /\ UNCHANGED <<currentSpace, spaceId, startedAt, lastSpaceEndedAt,
                   activeSpeakers, speakerQueue, decisionOptions, now,
                   nextRoom, liveRooms, janusSpeakers, reqs, idle>>
    /\ UNCHANGED <<pluginVars, lastReport, lastCheck>>

\* Time passes while the periodic check waits for its timer.
AdvanceClock(d) ==
    /\ routine.pc = "sleep"
    /\ now + d <= MaxTime
    /\ now' = now + d
    /\ UNCHANGED <<isSpaceRunning, currentSpace, spaceId, startedAt,
                   lastSpaceEndedAt, activeSpeakers, speakerQueue,
                   decisionOptions, nextRoom, liveRooms, janusSpeakers,
                   handlersOn, routine, reqs, idle>>
    /\ UNCHANGED <<pluginVars, lastReport, lastCheck>>

(***************************************************************************)
(* TwitterSpaceClient: stopSpace, speaker requests, the idle timeout.      *)
(***************************************************************************)
\* The fate of a call made on room x: it can succeed only on a live room.
Fates(x) == IF x \in liveRooms THEN BOOLEAN ELSE {FALSE}

\* userId removed from a list of user ids.
Without(js, u) == SelectSeq(js, LAMBDA x : x # u)

\* findIndex((s) => s.userId === u), then splice(idx, 1) if idx !== -1.
RemoveUser(act, u) ==
    IF \E k \in 1..Len(act) : act[k].userId = u
    THEN RemoveAt(act, CHOOSE k \in 1..Len(act) :
                          /\ act[k].userId = u
                          /\ \A m \in 1..(k - 1) : act[m].userId # u)
    ELSE act

\* A guard with the test of the running flag turned round.
NothingToStopFlagInverted == currentSpace = 0 \/ isSpaceRunning

\* The guard that opens stopSpace.
NothingToStop == currentSpace = 0 \/ ~isSpaceRunning

\* currentSpace.stop() is called on room x: with ok the room is released.
StopCall(x, ok) ==
    /\ liveRooms' = IF ok THEN liveRooms \ {x} ELSE liveRooms
    /\ janusSpeakers' = IF ok THEN [janusSpeakers EXCEPT ![x] = <<>>]
                        ELSE janusSpeakers

\* The fields reset after stop() inside the try block, so that they are
\* left as they are when stop() throws (the room is live still).
StopFinallyOnSuccessOnly ==
    IF currentSpace \in liveRooms
    THEN UNCHANGED <<isSpaceRunning, spaceId, currentSpace, startedAt,
                     lastSpaceEndedAt, activeSpeakers, speakerQueue>>
    ELSE /\ isSpaceRunning' = FALSE
         /\ spaceId' = 0
         /\ currentSpace' = 0
         /\ startedAt' = 0
         /\ lastSpaceEndedAt' = now
         /\ activeSpeakers' = <<>>
         /\ speakerQueue' = <<>>

\* The finally block of stopSpace.
StopFinally ==
    /\ isSpaceRunning' = FALSE
    /\ spaceId' = 0
    /\ currentSpace' = 0
    /\ startedAt' = 0
    /\ lastSpaceEndedAt' = now
    /\ activeSpeakers' = <<>>
    /\ speakerQueue' = <<>>

\* A room whose handlers are registered raises events while it is live.
EventSource == handlersOn \cap liveRooms # {}

\* "speakerRequest" for request r: handleSpeakerRequest up to the report.
\* Requests are numbered in the order the transport raises them.
SpeakerRequest(r) ==
    /\ reqs[r].pc = "new"
    /\ r > 1 => reqs[r - 1].pc # "new"
    /\ EventSource
    /\ reqs' = [reqs EXCEPT ![r] = IF spaceId = 0 \/ currentSpace = 0
                                   THEN Handler("done")
                                   ELSE [pc |-> "report", room |-> spaceId]]
    /\ UNCHANGED <<isSpaceRunning, currentSpace, spaceId, startedAt,
                   lastSpaceEndedAt, activeSpeakers, speakerQueue,
                   decisionOptions, now, nextRoom, liveRooms, janusSpeakers,
                   handlersOn, routine, idle>>
    /\ UNCHANGED <<pluginVars, lastReport, lastCheck>>

\* A speaker leaves room x of their own accord.
SpeakerLeaves(x, u) ==
    /\ x \in liveRooms
    /\ \E k \in 1..Len(janusSpeakers[x]) : janusSpeakers[x][k] = u
    /\ janusSpeakers' = [janusSpeakers EXCEPT ![x] = Without(@, u)]
    /\ UNCHANGED <<isSpaceRunning, currentSpace, spaceId, startedAt,
                   lastSpaceEndedAt, activeSpeakers, speakerQueue,
                   decisionOptions, now, nextRoom, liveRooms, handlersOn,
                   routine, reqs, idle>>
    /\ UNCHANGED <<pluginVars, lastReport, lastCheck>>

\* The list handleSpeakerRequest takes from a report on room x of kind k:
\* "throws", "none" (no participants in the answer: || []) or "list".
ReportedSpeakers(x, k) ==
    IF k = "list" THEN janusSpeakers[x] ELSE <<>>

\* getAudioSpaceById returns to handleSpeakerRequest: below the cap the
\* pre-accept filler is awaited, else the request is queued.  An exception
\* leaves the handler.
ReqReportReturns(r, k) ==
    /\ reqs[r].pc = "report"
    /\ IF k = "throws"
       THEN /\ reqs' = [reqs EXCEPT ![r] = Handler("done")]
            /\ UNCHANGED speakerQueue
       ELSE IF Len(ReportedSpeakers(reqs[r].room, k))
                   < decisionOptions.maxSpeakers
            THEN /\ reqs' = [reqs EXCEPT ![r] = Handler("filler")]
                 /\ UNCHANGED speakerQueue
            ELSE /\ reqs' = [reqs EXCEPT ![r] = Handler("done")]
                 /\ speakerQueue' = Append(speakerQueue, r)
    /\ UNCHANGED <<isSpaceRunning, currentSpace, spaceId, startedAt,
                   lastSpaceEndedAt, activeSpeakers, decisionOptions, now,
                   nextRoom, liveRooms, janusSpeakers, handlersOn, routine,
                   idle>>
    /\ UNCHANGED <<pluginVars, lastReport, lastCheck>>

\* The filler is over: acceptSpeaker(req) up to the await of approveSpeaker.
ReqFillerReturns(r, ok) ==
    /\ reqs[r].pc = "filler"
    /\ IF currentSpace = 0
       THEN /\ reqs' = [reqs EXCEPT ![r] = Handler("done")]
            /\ UNCHANGED janusSpeakers
       ELSE /\ ok \in Fates(currentSpace)
            /\ reqs' = [reqs EXCEPT ![r] = Handler(IF ok THEN "approved"
                                                   ELSE "refused")]
            /\ janusSpeakers' =
                   IF ok THEN [janusSpeakers EXCEPT ![currentSpace] = Append(@, r)]
                   ELSE janusSpeakers
    /\ UNCHANGED <<isSpaceRunning, currentSpace, spaceId, startedAt,
                   lastSpaceEndedAt, activeSpeakers, speakerQueue,
                   decisionOptions, now, nextRoom, liveRooms, handlersOn,
                   routine, idle>>
    /\ UNCHANGED <<pluginVars, lastReport, lastCheck>>

\* activeSpeakers.push({userId, ..., startTime: Date.now()})
PushSpeaker(act, u) == Append(act, [userId |-> u, startTime |-> now])

\* approveSpeaker returns to acceptSpeaker, or throws and is logged.
ReqApproveReturns(r) ==
    /\ reqs[r].pc \in {"approved", "refused"}
    /\ reqs' = [reqs EXCEPT ![r] = Handler("done")]
    /\ activeSpeakers' = IF reqs[r].pc = "approved"
                         THEN PushSpeaker(activeSpeakers, r)
                         ELSE activeSpeakers
    /\ UNCHANGED <<isSpaceRunning, currentSpace, spaceId, startedAt,
                   lastSpaceEndedAt, speakerQueue, decisionOptions, now,
                   nextRoom, liveRooms, janusSpeakers, handlersOn, routine,
                   idle>>
    /\ UNCHANGED <<pluginVars, lastReport, lastCheck>>

\* "idleTimeout": the handler awaits the filler.
IdleTimeout ==
    /\ idle.pc = "none"
    /\ EventSource
    /\ idle' = [idle EXCEPT !.pc = "filler"]
    /\ UNCHANGED <<isSpaceRunning, currentSpace, spaceId, startedAt,
                   lastSpaceEndedAt, activeSpeakers, speakerQueue,
                   decisionOptions, now, nextRoom, liveRooms, janusSpeakers,
                   handlersOn, routine, reqs>>
    /\ UNCHANGED <<pluginVars, lastReport, lastCheck>>

\* The handler's filler is over: stopSpace() up to the await of stop().
IdleFillerReturns(ok) ==
    /\ idle.pc = "filler"
    /\ IF NothingToStop
       THEN /\ idle' = NoHandler
            /\ UNCHANGED <<liveRooms, janusSpeakers>>
       ELSE /\ ok \in Fates(currentSpace)
            /\ StopCall(currentSpace, ok)
            /\ idle' = [idle EXCEPT !.pc = "stopping"]
    /\ UNCHANGED <<isSpaceRunning, currentSpace, spaceId, startedAt,
                   lastSpaceEndedAt, activeSpeakers, speakerQueue,
                   decisionOptions, now, nextRoom, handlersOn, routine, reqs>>
    /\ UNCHANGED <<pluginVars, lastReport, lastCheck>>

\* stop() returns to the handler's stopSpace, or throws and is logged.
IdleStopReturns ==
    /\ idle.pc = "stopping"
    /\ StopFinally
    /\ idle' = NoHandler
    /\ UNCHANGED <<decisionOptions, now, nextRoom, liveRooms, janusSpeakers,
                   handlersOn, routine, reqs>>
    /\ UNCHANGED <<pluginVars, lastReport, lastCheck>>

(***************************************************************************)
(* TwitterSpaceClient: manageCurrentSpace, the tick.                       *)
(*                                                                         *)
(* The operators below are the stretches of the tick between two awaits;   *)
(* act, q and js are activeSpeakers, speakerQueue and janusSpeakers as the *)
(* run has left them so far, r is the routine with its locals.             *)
(***************************************************************************)
\* The run stops at an await, or the tick is over.
Park(r, act, q, js) ==
    /\ routine' = r
    /\ activeSpeakers' = act
    /\ speakerQueue' = q
    /\ janusSpeakers' = js

\* A condition that leaves an empty room open until its budget is spent.
StopConditionBudgetOnly(r) ==
    \/ startedAt = 0
    \/ r.now0 - startedAt > decisionOptions.typicalDurationMinutes

\* The condition under which the tick stops the room.  startedAt undefined
\* reads as 0, which makes the elapsed time that of the epoch.
StopCondition(r) ==
    \/ startedAt = 0
    \/ r.now0 - startedAt > decisionOptions.typicalDurationMinutes
    \/ /\ Len(r.speakers) = 0
       /\ r.listeners = 0
       /\ r.now0 - startedAt > EMPTY_ROOM_MINUTES

\* The end of the tick: the closing filler is awaited, or the tick is over.
TickStopCheck(r, act, q, js) ==
    Park(IF StopCondition(r) THEN [r EXCEPT !.pc = "closing"] ELSE Sleeping,
         act, q, js)

\* removeSpeaker(u) called by the tick: the transport call and its fate.
RemoveCall(js, u, ok) ==
    IF ok THEN [js EXCEPT ![currentSpace] = Without(@, u)] ELSE js

\* The for loop of kickExtraSpeakers over extras.
RECURSIVE TickKick(_, _, _, _, _)
TickKick(r, extras, act, q, js) ==
    IF extras = <<>>
    THEN TickStopCheck(r, act, q, js)
    ELSE IF currentSpace = 0
    THEN TickKick(r, Tail(extras), RemoveUser(act, Head(extras)), q, js)
    ELSE \E ok \in Fates(currentSpace) :
             Park([r EXCEPT !.pc = "kick", !.extras = extras], act, q,
                  RemoveCall(js, Head(extras), ok))

\* A slice that takes the extras from the front of the list.
ExtraSpeakersFromFront(speakers) ==
    SubSeq(speakers, 1, Len(speakers) - decisionOptions.maxSpeakers)

\* extras = speakers.slice(ms)
ExtraSpeakers(speakers) ==
    SubSeq(speakers, decisionOptions.maxSpeakers + 1, Len(speakers))

\* numSpeakers > maxSpeakers: kickExtraSpeakers(participants.speakers).
TickKickStart(r, act, q, js) ==
    IF Len(r.speakers) > decisionOptions.maxSpeakers /\ currentSpace # 0
    THEN TickKick(r, ExtraSpeakers(r.speakers), act, q, js)
    ELSE TickStopCheck(r, act, q, js)

\* The while loop of acceptSpeakersFromQueueIfNeeded.
TickAccept(r, act, q, js) ==
    IF q # <<>> /\ Len(act) < decisionOptions.maxSpeakers
    THEN Park([r EXCEPT !.pc = "preAccept", !.req = Head(q)], act, Tail(q), js)
    ELSE TickKickStart(r, act, q, js)

\* The eviction loop scanning act downwards from index i (1-based): the
\* index of the next speaker over the duration cap, 0 if there is none,
\* -1 if the scan meets an index past the end (speaker.startTime throws).
RECURSIVE NextEvict(_, _, _)
NextEvict(i, act, n0) ==
    IF i = 0 THEN 0
    ELSE IF i > Len(act) THEN -1
    ELSE IF n0 - act[i].startTime > decisionOptions.speakerMaxDurationMinutes
    THEN i
    ELSE NextEvict(i - 1, act, n0)

TickEvict(r, i, act, q, js) ==
    LET e == NextEvict(i, act, r.now0)
    IN  IF e = 0 THEN TickAccept(r, act, q, js)
        ELSE IF e = -1 THEN Park(Sleeping, act, q, js)
        ELSE IF currentSpace = 0
        THEN Park([r EXCEPT !.pc = "evictFiller", !.i = e],
                  RemoveAt(act, e), q, js)
        ELSE \E ok \in Fates(currentSpace) :
                 Park([r EXCEPT !.pc = "evict", !.i = e], act, q,
                      RemoveCall(js, act[e].userId, ok))

tickFrame ==
    UNCHANGED <<isSpaceRunning, currentSpace, spaceId, startedAt,
                lastSpaceEndedAt, decisionOptions, now, nextRoom, liveRooms,
                handlersOn, idle>>

\* The log after a report of a tick: whether the call returned, and the
\* numbers of speakers and listeners and the time the tick took from it.
Reported(ok, speakers, listeners) ==
    IF ~lastReport.on THEN lastReport
    ELSE [on |-> TRUE, ok |-> ok,
          speakers |-> IF ok THEN speakers ELSE 0,
          listeners |-> IF ok THEN listeners ELSE 0,
          now0 |-> now]

\* getAudioSpaceById returns to the tick with the participants (ok) or
\* throws; listeners is the number of listeners it reports.
ReportReturns(ok, listeners) ==
    /\ routine.pc = "report"
    /\ IF ~ok
       THEN Park(Sleeping, activeSpeakers, speakerQueue, janusSpeakers)
       ELSE TickEvict([routine EXCEPT !.speakers = janusSpeakers[routine.room],
                                      !.listeners = listeners,
                                      !.now0 = now],
                      Len(activeSpeakers), activeSpeakers, speakerQueue,
                      janusSpeakers)
    /\ lastReport' = Reported(ok, Len(janusSpeakers[routine.room]), listeners)
    /\ tickFrame
    /\ UNCHANGED reqs
    /\ UNCHANGED <<pluginVars, lastCheck>>

\* removeSpeaker returns to the eviction loop: splice(i, 1), then the
\* filler is awaited.
EvictReturns ==
    /\ routine.pc = "evict"
    /\ Park([routine EXCEPT !.pc = "evictFiller"],
            IF routine.i <= Len(activeSpeakers)
            THEN RemoveAt(activeSpeakers, routine.i) ELSE activeSpeakers,
            speakerQueue, janusSpeakers)
    /\ tickFrame
    /\ UNCHANGED reqs
    /\ UNCHANGED <<pluginVars, lastReport, lastCheck>>

\* The filler after an eviction is over: the loop goes on below index i.
EvictFillerReturns ==
    /\ routine.pc = "evictFiller"
    /\ TickEvict(routine, routine.i - 1, activeSpeakers, speakerQueue,
                 janusSpeakers)
    /\ tickFrame
    /\ UNCHANGED reqs
    /\ UNCHANGED <<pluginVars, lastReport, lastCheck>>

\* The pre-accept filler of the tick is over: acceptSpeaker(nextReq) up to
\* the await of approveSpeaker.
PreAcceptReturns ==
    /\ routine.pc = "preAccept"
    /\ IF currentSpace = 0
       THEN /\ TickAccept(routine, activeSpeakers, speakerQueue,
                          janusSpeakers)
            /\ reqs' = [reqs EXCEPT ![routine.req] = Handler("lost")]
       ELSE /\ \E ok \in Fates(currentSpace) :
                   Park([routine EXCEPT !.pc = "approve", !.ok = ok],
                        activeSpeakers, speakerQueue,
                        IF ok THEN [janusSpeakers EXCEPT
                                       ![currentSpace] = Append(@, routine.req)]
                        ELSE janusSpeakers)
            /\ UNCHANGED reqs
    /\ tickFrame
    /\ UNCHANGED <<pluginVars, lastReport, lastCheck>>

\* approveSpeaker returns to the tick's acceptSpeaker, or throws and is
\* logged; the while loop goes on.
ApproveReturns ==
    /\ routine.pc = "approve"
    /\ TickAccept(routine,
                  IF routine.ok THEN PushSpeaker(activeSpeakers, routine.req)
                  ELSE activeSpeakers,
                  speakerQueue, janusSpeakers)
    /\ reqs' = IF routine.ok THEN reqs
               ELSE [reqs EXCEPT ![routine.req] = Handler("lost")]
    /\ tickFrame
    /\ UNCHANGED <<pluginVars, lastReport, lastCheck>>

\* removeSpeaker returns to kickExtraSpeakers: the extra is taken out of
\* activeSpeakers and the loop goes on.
KickReturns ==
    /\ routine.pc = "kick"
    /\ TickKick(routine, Tail(routine.extras),
                RemoveUser(activeSpeakers, Head(routine.extras)),
                speakerQueue, janusSpeakers)
    /\ tickFrame
    /\ UNCHANGED reqs
    /\ UNCHANGED <<pluginVars, lastReport, lastCheck>>

\* The closing filler is over: stopSpace() up to the await of stop().
ClosingReturns(ok) ==
    /\ routine.pc = "closing"
    /\ IF NothingToStop
       THEN /\ routine' = Sleeping
            /\ UNCHANGED <<liveRooms, janusSpeakers>>
       ELSE /\ ok \in Fates(currentSpace)
            /\ StopCall(currentSpace, ok)
            /\ routine' = [routine EXCEPT !.pc = "stopping"]
    /\ UNCHANGED <<isSpaceRunning, currentSpace, spaceId, startedAt,
                   lastSpaceEndedAt, activeSpeakers, speakerQueue,
                   decisionOptions, now, nextRoom, handlersOn, reqs, idle>>
    /\ UNCHANGED <<pluginVars, lastReport, lastCheck>>

\* stop() returns to the tick's stopSpace, or throws and is logged.
StopReturns ==
    /\ routine.pc = "stopping"
    /\ StopFinally
    /\ routine' = Sleeping
    /\ UNCHANGED <<decisionOptions, now, nextRoom, liveRooms, janusSpeakers,
                   handlersOn, reqs, idle>>
    /\ UNCHANGED <<pluginVars, lastReport, lastCheck>>

(***************************************************************************)
(* The manager with its transport: the life of the rooms, and admission    *)
(* in a room whose idle monitor stays quiet.                               *)
(***************************************************************************)
NextLaunch ==
    \/ \E draw \in BOOLEAN, inHours \in BOOLEAN, ok \in BOOLEAN :
           RoutineWakes(draw, inHours, ok)
    \/ InitializeReturns
    \/ \E ok \in BOOLEAN : SendTweetReturns(ok)
    \/ WelcomeReturns
    \/ \E d \in ClockSteps : AdvanceClock(d)
    \/ \E ok \in BOOLEAN, listeners \in {0, 1} : ReportReturns(ok, listeners)
    \/ \E ok \in BOOLEAN : ClosingReturns(ok)
    \/ StopReturns

NextSpace ==
    \/ NextLaunch
    \/ IdleTimeout
    \/ \E ok \in BOOLEAN : IdleFillerReturns(ok)
    \/ IdleStopReturns

NextAdmit ==
    \/ NextLaunch
    \/ \E r \in Requests : SpeakerRequest(r)
    \/ \E x \in Rooms, u \in Requests : SpeakerLeaves(x, u)
    \/ \E r \in Requests, k \in {"throws", "none", "list"} :
           ReqReportReturns(r, k)
    \/ \E r \in Requests, ok \in BOOLEAN : ReqFillerReturns(r, ok)
    \/ \E r \in Requests : ReqApproveReturns(r)
    \/ EvictReturns
    \/ EvictFillerReturns
    \/ PreAcceptReturns
    \/ ApproveReturns
    \/ KickReturns

SpecSpace == Init /\ [][NextSpace]_vars

SpecAdmit == Init /\ [][NextAdmit]_vars

(***************************************************************************)
(* Properties of the voice pipeline.                                       *)
(***************************************************************************)
ActiveLoops == {l \in Jobs : loops[l].pc # "idle"}

\* Pending silence timers: the one the field refers to and the orphans.
PendingTimers ==
    (IF userSpeakingTimer \in Users THEN 1 ELSE 0)
    + orphanTimers["u1"] + orphanTimers["u2"]

\* C2: at most one utterance is in flight.  At most one processAudio
\* invocation is past the busy guard (transcribing, classifying or
\* generating) at any time, it holds the busy flag, and a silence timer that
\* expires while the flag is set starts nothing: the flush is dropped, no
\* turn is added, no buffer is touched.
OneUtteranceInFlight ==
    /\ [](Len(turns) <= 1 /\ (turns # <<>> => isProcessingAudio))
    /\ [][(isProcessingAudio /\ PendingTimers' < PendingTimers)
            => UNCHANGED <<turns, pcmBuffers, isProcessingAudio>>]_vars

\* A turn is being generated and the last timer to expire met the guard.
FlushDroppedWhileBusy ==
    /\ lastFlush = "dropped"
    /\ Len(turns) = 1
    /\ turns[1].pc = "generate"

\* C5: the busy flag is released on every way out of a turn.  The flag is
\* set only while a processAudio invocation is suspended in its try block,
\* and every step in which an invocation ends leaves the flag false.
BusyReleasedOnEveryExit ==
    /\ [](isProcessingAudio => turns # <<>>)
    /\ [][Len(turns') < Len(turns) => ~isProcessingAudio']_vars

\* A turn was started and has ended, and a later frame has been buffered.
FrameAcceptedAfterTurn ==
    /\ lastFlush = "started"
    /\ turns = <<>>
    /\ ~isProcessingAudio
    /\ pcmBuffers["u1"] # <<>>

\* C3: playback is serialized, at most one processTtsQueue loop is active
\* at any time.
OnePlaybackLoop == Cardinality(ActiveLoops) <= 1

\* Loop l pushes a frame of its job to the transport in this step.
PushStep(l) ==
    /\ loops'[l].pc = "stream"
    /\ loops'[l].job = loops[l].job
    /\ \/ loops[l].pc = "convert"
       \/ loops[l].pc = "stream" /\ loops'[l].left < loops[l].left

\* A frame is accepted in this step while the agent is speaking, and with
\* it the window's average exceeds the speaking threshold.
BargeInStep ==
    /\ isSpeaking
    /\ \E u \in Users :
          /\ Len(pcmBuffers'[u]) > Len(pcmBuffers[u])
          /\ AvgTriggers(PushWindow(volumeBuffers[u],
                                     pcmBuffers'[u][Len(pcmBuffers'[u])].head))

\* C4: barge-in.  When the rolling average exceeds the speaking threshold
\* while the agent is playing, the token of every job being played is
\* triggered, and no frame of a job whose token is triggered is pushed.
BargeInCancelsJob ==
    [][/\ BargeInStep => \A l \in ActiveLoops : loops'[l].aborted
       /\ \A l \in Jobs : PushStep(l) => ~loops[l].aborted]_vars

\* C9: the playback loop goes on to the next queued job after a job's
\* streaming completed or was cancelled: while texts are queued a loop is
\* there to dequeue them, and with no loop left the speaking flag is clear.
QueueDrainedByLoop ==
    /\ ttsQueue # <<>> => ActiveLoops # {}
    /\ ActiveLoops = {} => ~isSpeaking

\* C10: queued jobs play in FIFO order.  No frame of a job is pushed after
\* a frame of a job enqueued later.
TtsFifoOrder == [][lastPushed' >= lastPushed]_vars

(***************************************************************************)
(* Properties of the room manager.                                         *)
(***************************************************************************)
\* A step with which the periodic check ends a tick.
TickCompletes ==
    /\ routine.pc \in {"report", "evict", "evictFiller", "preAccept",
                       "approve", "kick", "closing", "stopping"}
    /\ routine'.pc = "sleep"

\* C1: after any tick completes, the number of entries of the active-speaker
\* set is at most maxSpeakers.
ActiveWithinCapAfterTick ==
    [][TickCompletes => Len(activeSpeakers') <= decisionOptions.maxSpeakers]_vars

\* The handler of request r decides in this step: it goes on to admit r ...
DecidesToAdmit(r) == reqs[r].pc = "report" /\ reqs'[r].pc = "filler"

\* ... or it appends r to the admission queue.
DecidesToQueue(r) ==
    /\ reqs[r].pc = "report"
    /\ speakerQueue' = Append(speakerQueue, r)

\* C6: handleSpeakerRequest goes on to admit a request exactly if the
\* active-speaker count is below the cap when it decides, and appends it to
\* the admission queue exactly if the count has reached the cap.
AdmitBelowCapElseQueue ==
    [][\A r \in Requests :
          /\ DecidesToAdmit(r) =>
                 Len(activeSpeakers) < decisionOptions.maxSpeakers
          /\ DecidesToQueue(r) =>
                 Len(activeSpeakers) >= decisionOptions.maxSpeakers]_vars

\* C7: the admission queue is served in FIFO order.  When the tick admits
\* a request it took from the queue, no request it took from the queue
\* earlier has been left unadmitted.
QueueServedInOrder ==
    [][(routine.pc = "approve" /\ routine.ok /\ routine'.pc # "approve")
          => \A a \in Requests : reqs[a].pc # "lost"]_vars

\* C8: at most one room is live at any time.
AtMostOneRoomLive == Cardinality(liveRooms) <= 1

(***************************************************************************)
(* The silence endpointer.                                                 *)
(***************************************************************************)
\* The silence timer of speaker u expires in this step and its callback
\* flushes.
FlushStep(u) ==
    /\ userSpeakingTimer = u
    /\ userSpeakingTimer' = "null"
    /\ ~isProcessingAudio

\* C11: endpointing.  Frames a speaker had accepted are flushed once the
\* speaker has been silent for the timeout: while a speaker has unflushed
\* frames a silence timer is pending for that speaker, and the flush the
\* timer makes starts one turn with all of those frames and leaves the
\* speaker's buffer empty.
SilenceFlushesUtterance ==
    [][\A u \in Users :
          /\ pcmBuffers'[u] # <<>> => userSpeakingTimer' = u
          /\ (FlushStep(u) /\ pcmBuffers[u] # <<>>) =>
                 /\ Len(turns') = Len(turns) + 1
                 /\ turns'[Len(turns')].userId = u
                 /\ turns'[Len(turns')].chunks = Merge(pcmBuffers[u])
                 /\ pcmBuffers'[u] = <<>>]_vars

\* Speaker u's frame is accepted in this step.
AcceptStep(u) == Len(pcmBuffers'[u]) > Len(pcmBuffers[u])

\* C12: every accepted frame resets the timer.  Right after a frame of a
\* speaker is accepted, a silence timer is pending for that speaker.
AcceptedFrameArmsTimer ==
    [][\A u \in Users : AcceptStep(u) => userSpeakingTimer' = u]_vars

(***************************************************************************)
(* Frames below the speaking threshold.                                    *)
(***************************************************************************)
\* A frame whose peak passes silenceThreshold and is below the speaking
\* threshold (0.05 of full scale, 1638.4).
SoftFrame == FrameOf(<<1000, 1000>>)

\* The peak of frame f is at or above the speaking threshold.
AboveSpeakingThreshold(f) ==
    f.peak * 100 >= SPEAKING_THRESHOLD_PERCENT * AMPLITUDE_SCALE

\* The frames of a speaker who talks softly: silence and soft frames.
SoftFrames == {FrameOf(<<0, 0>>), SoftFrame}

NextSoft ==
    \/ \E u \in Speakers, f \in SoftFrames : OnAudioData(u, f)
    \/ \E u \in Speakers : TimerFires(u)
    \/ \E i \in 1..MaxTurns, r \in SttResults : SttReturns(i, r)
    \/ \E i \in 1..MaxTurns, ok \in BOOLEAN : StateReturns(i, ok)
    \/ \E i \in 1..MaxTurns, r \in ClassifierResults : ClassifyReturns(i, r)
    \/ \E i \in 1..MaxTurns, r \in GeneratorResults : GenerateReturns(i, r)
    \/ \E i \in 1..MaxTurns, ok \in BOOLEAN : PersistReturns(i, ok)
    \/ SpeakFiller
    \/ \E l \in Jobs, ok \in BOOLEAN : TtsReturns(l, ok)
    \/ \E l \in Jobs, ok \in BOOLEAN, n \in 0..MaxFrames : ConvertReturns(l, ok, n)
    \/ \E l \in Jobs : StreamWake(l)

\* The attached plugin with a speaker who talks softly.
SpecSoft == Init /\ [][NextSoft]_vars

\* C13: while the agent is synthesizing or playing its own speech, no frame
\* whose peak is below the speaking threshold is appended to a speaker's
\* buffer.
SoftFrameNotBufferedWhileSpeaking ==
    [][\A u \in Users :
          (isSpeaking /\ AcceptStep(u)) =>
              AboveSpeakingThreshold(pcmBuffers'[u][Len(pcmBuffers'[u])])]_vars

(***************************************************************************)
(* Two speakers.                                                           *)
(***************************************************************************)
NextDuet ==
    \/ \E u \in Users, f \in Frames : OnAudioData(u, f)
    \/ \E u \in Users : TimerFires(u)
    \/ \E i \in 1..MaxTurns, r \in SttResults : SttReturns(i, r)
    \/ \E i \in 1..MaxTurns, ok \in BOOLEAN : StateReturns(i, ok)
    \/ \E i \in 1..MaxTurns, r \in ClassifierResults : ClassifyReturns(i, r)
    \/ \E i \in 1..MaxTurns, r \in GeneratorResults : GenerateReturns(i, r)
    \/ \E i \in 1..MaxTurns, ok \in BOOLEAN : PersistReturns(i, ok)
    \/ SpeakFiller
    \/ \E l \in Jobs, ok \in BOOLEAN : TtsReturns(l, ok)
    \/ \E l \in Jobs, ok \in BOOLEAN, n \in 0..MaxFrames : ConvertReturns(l, ok, n)
    \/ \E l \in Jobs : StreamWake(l)

\* The attached plugin with two speakers on stage.
SpecDuet == Init /\ [][NextDuet]_vars

\* C14: the silence endpointer is per speaker.  A frame accepted from one
\* speaker neither cancels nor restarts the timer that is pending for
\* another speaker.
TimerPerSpeaker ==
    [][\A a \in Users : \A b \in Users \ {a} :
          (userSpeakingTimer = a /\ AcceptStep(b)) =>
              userSpeakingTimer' = a]_vars

\* C15: a flush for one speaker hands over that speaker's chunks and
\* removes that speaker's buffer, and leaves the unflushed chunks of every
\* other speaker in place.
FlushTakesOwnBufferOnly ==
    [][\A a \in Users :
          FlushStep(a) =>
              /\ pcmBuffers'[a] = <<>>
              /\ \A b \in Users \ {a} : pcmBuffers'[b] = pcmBuffers[b]]_vars

(***************************************************************************)
(* Rejected frames and failed collaborators.                               *)
(***************************************************************************)
\* C16: a frame that onAudioData rejects, because a turn is in flight or
\* because its peak is below the silence threshold, changes nothing: no
\* buffer, timer, volume window, queue, loop or flag of the plugin differs
\* after it.  And only such frames are kept out: a frame that is appended
\* arrived while no turn was in flight and has a peak at or above the
\* silence threshold.
RejectedFrameChangesNothing ==
    [][/\ (lastEvent # "rejected" /\ lastEvent' = "rejected") =>
              UNCHANGED pluginState
       /\ \A u \in Users :
              AcceptStep(u) =>
                  /\ ~isProcessingAudio
                  /\ pcmBuffers'[u][Len(pcmBuffers'[u])].peak >= silenceThreshold
                  /\ lastEvent' = "accepted"]_vars

\* A frame was rejected after one had been accepted, and the timer the
\* accepted frame started is pending still, the buffer as it was.
FrameRejectedWhileTimerPending ==
    /\ lastEvent = "rejected"
    /\ userSpeakingTimer = "u1"
    /\ Len(pcmBuffers["u1"]) = 1
    /\ ~isProcessingAudio

\* processAudio invocation i, waiting at one of the pcs, ends in this step.
TurnEndsAt(i, pcs) ==
    /\ i \in 1..Len(turns)
    /\ turns[i].pc \in pcs
    /\ turns' = RemoveAt(turns, i)

\* No job is handed to the playback queue in this step.
NothingEnqueued ==
    /\ nextJob' = nextJob
    /\ ttsQueue' = ttsQueue
    /\ loops' = loops
    /\ isSpeaking' = isSpeaking

\* C17: a failure of the transcription, classification or generation
\* collaborator aborts the turn.  The step in which the failure is logged
\* ends the turn that was waiting for the collaborator; a turn that ends
\* while it waits for one of the three enqueues no job and starts no
\* playback loop, and leaves the pipeline not busy, so that the frames of
\* the next utterance are accepted.
CollaboratorFailureAbortsTurn ==
    [][/\ (lastEvent # "failed" /\ lastEvent' = "failed") =>
              \E i \in 1..MaxTurns :
                  TurnEndsAt(i, {"stt", "classify", "generate"})
       /\ \A i \in 1..MaxTurns :
              TurnEndsAt(i, {"stt", "classify", "generate"}) =>
                  /\ NothingEnqueued
                  /\ ~isProcessingAudio'
                  /\ ~GateRejects([peak |-> 32767, head |-> 32767])']_vars

\* A collaborator has just failed in the first turn: the turn is gone,
\* nothing was enqueued and the pipeline is idle.
TurnAbortedByFailure ==
    /\ lastEvent = "failed"
    /\ turns = <<>>
    /\ ~isProcessingAudio
    /\ pcmBuffers["u1"] = <<>>
    /\ ttsQueue = <<>>
    /\ nextJob = 1

(***************************************************************************)
(* Failed synthesis.                                                       *)
(***************************************************************************)
\* The job of loop l fails in this step: elevenLabsTts throws, or the
\* failure logged in this step is that of convertMp3ToPcm.
JobFailsStep(l) ==
    /\ loops'[l].job # loops[l].job
    /\ \/ loops[l].pc = "tts"
       \/ /\ loops[l].pc = "convert"
          /\ lastEvent # "jobFailed"
          /\ lastEvent' = "jobFailed"

\* C18: a failure of synthesis or of transcoding aborts only the job it
\* belongs to.  The step in which the failure is logged is one in which a
\* job leaves its loop; the failed job is not put back, nothing of it is
\* pushed, the loop goes on with the next queued job, and when the queue is
\* empty the loop ends and the speaking flag is cleared.
FailedJobSkipped ==
    [][/\ (lastEvent # "jobFailed" /\ lastEvent' = "jobFailed") =>
              \E l \in Jobs : JobFailsStep(l)
       /\ \A l \in Jobs :
              JobFailsStep(l) =>
                  /\ nextJob' = nextJob
                  /\ lastPushed' = lastPushed
                  /\ IF ttsQueue = <<>>
                     THEN /\ loops'[l] = NoLoop
                          /\ ttsQueue' = <<>>
                          /\ ~isSpeaking'
                     ELSE /\ loops'[l].pc = "tts"
                          /\ loops'[l].job = Head(ttsQueue)
                          /\ ttsQueue' = Tail(ttsQueue)
                          /\ isSpeaking' = isSpeaking]_vars

\* The first job failed and the loop that ran it has gone on to the second.
LoopContinuesAfterFailedJob ==
    /\ lastEvent = "jobFailed"
    /\ loops[1].pc = "tts"
    /\ loops[1].job = 2
    /\ loops[2] = NoLoop
    /\ ttsQueue = <<>>
    /\ lastPushed = 0

(***************************************************************************)
(* The transcript and the decision to respond.                             *)
(***************************************************************************)
\* C19: a transcript that is empty or white space only aborts the turn
\* silently.  The step in which the blank transcript arrives ends the turn
\* with nothing enqueued and the pipeline not busy, and no turn goes on to
\* the classifier, the generator or the queue with a blank transcript.
BlankTranscriptAbortsTurn ==
    /\ [](\A i \in 1..Len(turns) :
              turns[i].pc # "stt" =>
                  turns[i].text \notin {"none", "empty", "spaces"})
    /\ [][(lastEvent # "blank" /\ lastEvent' = "blank") =>
              /\ \E i \in 1..MaxTurns : TurnEndsAt(i, {"stt"})
              /\ NothingEnqueued
              /\ ~isProcessingAudio']_vars

\* A blank transcript has just ended the first turn.
TurnAbortedByBlankTranscript ==
    /\ lastEvent = "blank"
    /\ turns = <<>>
    /\ ~isProcessingAudio
    /\ pcmBuffers["u1"] = <<>>
    /\ ttsQueue = <<>>
    /\ nextJob = 1

\* C20: the decision to respond, for a transcript that passed the content
\* filter.  A transcript that contains the agent's name goes to the
\* generator without a verdict of the classifier; any other transcript is
\* put to the classifier and goes to the generator only with the verdict
\* RESPOND; a turn the classifier ends enqueues no job.
RespondOnlyIfNamedOrTold ==
    /\ [](\A i \in 1..Len(turns) :
              /\ turns[i].pc = "classify" =>
                     /\ ~ShouldIgnore(turns[i].text)
                     /\ ~ContainsName(turns[i].text)
              /\ turns[i].pc \in {"generate", "persist"} =>
                     /\ ~ShouldIgnore(turns[i].text)
                     /\ turns[i].verdict =
                            IF ContainsName(turns[i].text) THEN "none"
                            ELSE "RESPOND")
    /\ [][\A i \in 1..MaxTurns :
              TurnEndsAt(i, {"classify"}) => NothingEnqueued]_vars

\* A transcript without the agent's name is at the generator, the
\* classifier having said RESPOND.
UnnamedTranscriptToldToRespond ==
    \E i \in 1..Len(turns) :
        /\ turns[i].pc = "generate"
        /\ turns[i].text = "plain"
        /\ turns[i].verdict = "RESPOND"

(***************************************************************************)
(* The life of a room, in runs that keep the log of the ticks.             *)
(***************************************************************************)
\* Minutes between two runs of the periodic check in these runs.
TickSteps == {3}

NextManaged ==
    \/ \E draw \in BOOLEAN, inHours \in BOOLEAN, ok \in BOOLEAN :
           RoutineWakes(draw, inHours, ok)
    \/ InitializeReturns
    \/ \E ok \in BOOLEAN : SendTweetReturns(ok)
    \/ WelcomeReturns
    \/ \E d \in TickSteps : AdvanceClock(d)
    \/ \E ok \in BOOLEAN, listeners \in {0, 1} : ReportReturns(ok, listeners)
    \/ \E ok \in BOOLEAN : ClosingReturns(ok)
    \/ StopReturns
    \/ IdleTimeout
    \/ \E ok \in BOOLEAN : IdleFillerReturns(ok)
    \/ IdleStopReturns

SpecManaged == InitManaged /\ [][NextManaged]_vars

\* What report rep says of a room started at start: the budget of the room
\* is spent, or the room is empty and past its grace period.
StopDue(rep, start) ==
    /\ rep.ok
    /\ \/ rep.now0 - start > decisionOptions.typicalDurationMinutes
       \/ /\ rep.speakers = 0
          /\ rep.listeners = 0
          /\ rep.now0 - start > EMPTY_ROOM_MINUTES

EvictRequests == {1, 2}

NextEvictRoom ==
    \/ NextLaunch
    \/ \E r \in EvictRequests : SpeakerRequest(r)
    \/ \E r \in EvictRequests, k \in {"throws", "none", "list"} :
           ReqReportReturns(r, k)
    \/ \E r \in EvictRequests, ok \in BOOLEAN : ReqFillerReturns(r, ok)
    \/ \E r \in EvictRequests : ReqApproveReturns(r)
    \/ EvictReturns
    \/ EvictFillerReturns
    \/ PreAcceptReturns
    \/ ApproveReturns
    \/ KickReturns
    \/ IdleTimeout
    \/ \E ok \in BOOLEAN : IdleFillerReturns(ok)
    \/ IdleStopReturns

SpecEvict == Init /\ [][NextEvictRoom]_vars

\* Entry e of the active-speaker set is over the duration cap at time n0.
OverCap(e, n0) ==
    n0 - e.startTime > decisionOptions.speakerMaxDurationMinutes

\* The eviction loop takes an entry out of the active-speaker set in this
\* step (the splice after removeSpeaker).
SpliceStep == routine.pc = "evict" /\ routine'.pc = "evictFiller"

\* C22: a tick evicts the speakers over the duration cap and no others.
\* When a tick that went through its eviction loop ends, no active speaker
\* is over the cap, and every entry the eviction loop takes out of the
\* active-speaker set is that of a speaker over the cap.
TickEvictsOverdueOnly ==
    [][/\ (TickCompletes /\ routine.pc # "report") =>
              \A k \in 1..Len(activeSpeakers') :
                  ~OverCap(activeSpeakers'[k], routine.now0)
       /\ SpliceStep =>
              \A k \in 1..Len(activeSpeakers) :
                  (\A m \in 1..Len(activeSpeakers') :
                       activeSpeakers'[m] # activeSpeakers[k]) =>
                      OverCap(activeSpeakers[k], routine.now0)]_vars

(***************************************************************************)
(* The idle timeout.                                                       *)
(***************************************************************************)
\* The same runs, in which an idleTimeout handler that can go on does go
\* on: its filler ends and the stop() it awaits returns or throws.
SpecManagedFair ==
    /\ SpecManaged
    /\ WF_vars(\E ok \in BOOLEAN : IdleFillerReturns(ok))
    /\ WF_vars(IdleStopReturns)

\* The manager is Idle: no room is running and none is referred to.
ManagerIdle == ~isSpaceRunning /\ currentSpace = 0 /\ spaceId = 0

\* C23: an idleTimeout event stops the room.  The handler of the event
\* ends only with no room running, and with the manager Idle if it called
\* stop(); and once the event has been raised by the room that is running,
\* the manager comes to be Idle.
IdleTimeoutStopsRoom ==
    /\ [][(idle.pc # "none" /\ idle'.pc = "none") =>
              /\ ~isSpaceRunning'
              /\ idle.pc = "stopping" => ManagerIdle']_vars
    /\ (idle.pc = "filler" /\ isSpaceRunning /\ currentSpace \in handlersOn)
           ~> ManagerIdle

\* The room was stopped before any tick had its report, so by the handler
\* of an idleTimeout event, which has ended.
RoomStoppedByIdleTimeout ==
    /\ lastReport = [NoReport EXCEPT !.on = TRUE]
    /\ lastSpaceEndedAt # 0
    /\ idle.pc = "none"
    /\ routine.pc = "sleep"
    /\ ManagerIdle
    /\ liveRooms = {}

(***************************************************************************)
(* stopSpace.                                                              *)
(***************************************************************************)
\* A stopSpace that called stop() ends in this step, in the tick or in the
\* handler of the idle timeout.
StopSpaceEnds ==
    \/ routine.pc = "stopping" /\ routine'.pc # "stopping"
    \/ idle.pc = "stopping" /\ idle'.pc # "stopping"

\* C24: when a stopSpace that went past its guard ends, whether stop()
\* returned or threw, the manager is Idle: no room is running, the room
\* reference, the id and the start time are cleared, the active-speaker set
\* and the admission queue are empty, and the end time is the present time.
StopSpaceLeavesManagerIdle ==
    [][StopSpaceEnds =>
           /\ ManagerIdle'
           /\ startedAt' = 0
           /\ activeSpeakers' = <<>>
           /\ speakerQueue' = <<>>
           /\ lastSpaceEndedAt' = now]_vars

\* The first room was stopped, stop() threw (the transport has the room
\* still) and the manager is Idle with the end time recorded.
ManagerIdleAfterFailedStop ==
    /\ ManagerIdle
    /\ lastSpaceEndedAt = now
    /\ liveRooms = {1}
    /\ nextRoom = 2
    /\ activeSpeakers = <<>>
    /\ speakerQueue = <<>>
    /\ routine.pc = "sleep"
    /\ idle.pc = "none"

(***************************************************************************)
(* The launch decision of the periodic check.                              *)
(***************************************************************************)

\* The manager before its first check, with or without the restriction to
\* business hours, in a run that logs the launch decisions.
InitLaunch ==
    /\ InitPlugin
    /\ \E b \in BOOLEAN :
           InitSpaceOf([Settings EXCEPT !.businessHoursOnly = b])
    /\ lastEvent = "off"
    /\ lastReport = NoReport
    /\ lastCheck = [NoCheck EXCEPT !.on = TRUE]

SpecLaunch == InitLaunch /\ [][NextManaged]_vars

\* A step that calls startSpace: it creates a room.
LaunchDecided == nextRoom' # nextRoom

\* C25: a room is launched only by a check whose draw did not exceed the
\* chance, that ran in business hours when the restriction is on, and that
\* ran no sooner than the minimum interval after the recorded end of the
\* previous room.
LaunchOnlyWhenGuardsPass ==
    [][LaunchDecided =>
           /\ routine.pc = "sleep"
           /\ ~isSpaceRunning
           /\ lastCheck'.draw
           /\ decisionOptions.businessHoursOnly => lastCheck'.inHours
           /\ \/ lastSpaceEndedAt = 0
              \/ now - lastSpaceEndedAt
                     >= decisionOptions.minIntervalBetweenSpacesMinutes]_vars

\* A second room launched in business hours exactly when the cooldown of
\* the first one ended.
SecondRoomLaunchedAfterCooldown ==
    /\ decisionOptions.businessHoursOnly
    /\ lastCheck.draw
    /\ lastCheck.inHours
    /\ routine.pc = "init"
    /\ currentSpace = 2
    /\ lastSpaceEndedAt = 4
    /\ startedAt = lastSpaceEndedAt + decisionOptions.minIntervalBetweenSpacesMinutes

\* The step on which currentSpace.initialize throws.
InitializeThrows == routine.pc = "init" /\ ~routine.ok /\ routine' # routine

\* C26: when the initialization of the room fails, the error leaves
\* startSpace and reaches the periodic check, which re-arms its timer; no
\* room is running, none was opened, the id is unset and the sets are empty.
FailedLaunchLeavesManagerIdle ==
    [][InitializeThrows =>
           /\ ~isSpaceRunning'
           /\ spaceId' = 0
           /\ liveRooms' = liveRooms
           /\ activeSpeakers' = <<>>
           /\ speakerQueue' = <<>>
           /\ routine' = Sleeping]_vars

\* A second launch attempted by a later check after the first one failed.
LaunchRetriedAfterFailure ==
    /\ routine.pc = "init"
    /\ currentSpace = 2
    /\ liveRooms = {}
    /\ ~isSpaceRunning
    /\ lastSpaceEndedAt = 0

(***************************************************************************)
(* The PCM that a flush hands to transcription.                            *)
(***************************************************************************)

\* Frames that differ in length and content, and a silent one.
PcmFrames ==
    {FrameOf(<<0, 0>>), FrameOf(<<100, -200>>), FrameOf(<<300, 400, -500>>)}

NextMerge ==
    \/ \E u \in Speakers, f \in PcmFrames : OnAudioData(u, f)
    \/ \E u \in Speakers : TimerFires(u)
    \/ \E i \in 1..MaxTurns, r \in SttResults : SttReturns(i, r)

\* The attached plugin with one speaker whose frames can be told apart.
SpecMerge == Init /\ [][NextMerge]_vars

\* The samples of the chunks, one chunk after the other.
RECURSIVE Flatten(_)
Flatten(chunks) ==
    IF chunks = <<>> THEN <<>>
    ELSE Head(chunks).samples \o Flatten(Tail(chunks))

Rates == {200, 350}

\* What convertMp3ToPcm can return: samples that can be told apart.
PcmInputs == {[i \in 1..len |-> i] : len \in 0..MaxSamples}

NextStream ==
    \/ \E u \in Speakers, f \in Frames : OnAudioData(u, f)
    \/ SpeakFiller
    \/ \E l \in Jobs, ok \in BOOLEAN : TtsReturns(l, ok)
    \/ \E l \in Jobs, pcm \in PcmInputs, rate \in Rates :
           ConvertReturnsPcm(l, pcm, rate)
    \/ \E l \in Jobs : StreamPcmWake(l)

\* The playback of replies whose samples are followed to the transport.
SpecStream == Init /\ [][NextStream]_vars

\* Loop l is inside streamToJanus, suspended at its pacing wait.
Streaming(l) == loops[l].pc = "stream"

\* Frame k of the PCM, for frames of frameSize samples.
FullFrame(samples, k, frameSize) ==
    SubSeq(samples, (k - 1) * frameSize + 1, k * frameSize)

Wide(hi, lo) == [hi |-> hi, lo |-> lo]

\* w + n for a small n.
WidePlus(w, n) ==
    [hi |-> w.hi + (w.lo + n) \div 65536, lo |-> (w.lo + n) % 65536]

\* w * 2.
WideTwice(w) == WidePlus(Wide(2 * w.hi, w.lo), w.lo)

SetUint16BigEndian(x) == <<(x \div 256) % 256, x % 256>>

\* view.setUint16(offset, x, true): the two low bytes of x, low byte first.
SetUint16(x) == <<x % 256, (x \div 256) % 256>>

\* view.setUint32(offset, w, true): the four low bytes of w, low byte first.
SetUint32(w) == SetUint16(w.lo) \o SetUint16(w.hi)

\* view.setInt16(offset, x, true) of a 16-bit sample: two's complement.
SetInt16(x) == SetUint16((x + 65536) % 65536)

\* The character codes writeString stores for the four tags.
RIFF == <<82, 73, 70, 70>>

WAVE == <<87, 65, 86, 69>>

FMT == <<102, 109, 116, 32>>

DATA == <<100, 97, 116, 97>>

\* The loop that stores the samples from sample i on.
RECURSIVE WriteSamples(_, _)
WriteSamples(pcmData, i) ==
    IF i > Len(pcmData) THEN <<>>
    ELSE SetInt16(pcmData[i]) \o WriteSamples(pcmData, i + 1)

\* convertPcmToWavInMemory(pcmData, sampleRate): the bytes of the buffer.
ConvertPcmToWavInMemory(pcmData, sampleRate) ==
    LET numChannels == 1
        byteRate == WideTwice(sampleRate)
        blockAlign == numChannels * 2
        dataSize == Wide(0, Len(pcmData) * 2)
    IN  RIFF \o SetUint32(WidePlus(dataSize, 36)) \o WAVE \o FMT
            \o SetUint32(Wide(0, 16)) \o SetUint16(1) \o SetUint16(numChannels)
            \o SetUint32(sampleRate) \o SetUint32(byteRate)
            \o SetUint16(blockAlign) \o SetUint16(16)
            \o DATA \o SetUint32(dataSize) \o WriteSamples(pcmData, 1)

\* The unsigned 16-bit number stored low byte first at offset at.
GetUint16(bytes, at) == bytes[at + 1] + 256 * bytes[at + 2]

\* The unsigned 32-bit number stored low byte first at offset at.
GetUint32(bytes, at) == Wide(GetUint16(bytes, at + 2), GetUint16(bytes, at))

\* The signed 16-bit number stored low byte first at offset at.
GetInt16(bytes, at) ==
    IF GetUint16(bytes, at) >= 32768 THEN GetUint16(bytes, at) - 65536
    ELSE GetUint16(bytes, at)

\* What a reader of the container finds in the 44-byte header and the data
\* that follows it.
DecodeWav(bytes) ==
    LET size == GetUint32(bytes, 40)
        align == GetUint16(bytes, 32)
    IN  [sampleRate |-> GetUint32(bytes, 24),
         numChannels |-> GetUint16(bytes, 22),
         bitsPerSample |-> GetUint16(bytes, 34),
         samples |-> [i \in 1..((size.hi * 65536 + size.lo) \div align) |->
                         GetInt16(bytes, 44 + (i - 1) * align)]]

\* The values of the samples in these runs: the ends of the 16-bit range
\* and values whose two bytes differ.
SampleValues == {-32768, -2, 0, 255, 32767}

RECURSIVE SeqsUpTo(_, _)
SeqsUpTo(S, n) ==
    IF n = 0 THEN {<<>>}
    ELSE SeqsUpTo(S, n - 1)
             \cup {Append(q, x) : q \in {p \in SeqsUpTo(S, n - 1) :
                                            Len(p) = n - 1}, x \in S}

PcmData == SeqsUpTo(SampleValues, MaxPcm)

\* The rates in these runs: 8000, 48000 and 96000 Hz, 2^31 Hz, and
\* 2^32 + 48000 Hz.
SampleRates ==
    {Wide(0, 8000), Wide(0, 48000), Wide(1, 30464), Wide(32768, 0),
     Wide(65536, 48000)}

\* A call of convertPcmToWavInMemory.
ConvertPcmToWav(pcmData, sampleRate) ==
    /\ wavBuffer' = [pcm |-> pcmData, rate |-> sampleRate,
                     bytes |-> ConvertPcmToWavInMemory(pcmData, sampleRate)]
    /\ UNCHANGED <<pluginState, lastEvent, spaceVars, postClient, requestQueue>>

NextWav ==
    \E pcmData \in PcmData, sampleRate \in SampleRates :
        ConvertPcmToWav(pcmData, sampleRate)

SpecWav == Init /\ [][NextWav]_vars

\* The container decodes to the arguments of the call that built it.
Decoded ==
    /\ Len(wavBuffer.bytes) = 44 + 2 * Len(wavBuffer.pcm)
    /\ DecodeWav(wavBuffer.bytes)
           = [sampleRate |-> wavBuffer.rate, numChannels |-> 1,
              bitsPerSample |-> 16, samples |-> wavBuffer.pcm]

NewPendingTweet == [thumbsUp |-> FALSE, reject |-> FALSE]

\* The client as the constructor leaves it, for each TWITTER_DRY_RUN and
\* TWITTER_APPROVAL_ENABLED; the cache outlives the process, so it may
\* hold a tweet that an earlier run sent for approval.
StartedPostClients ==
    {[isDryRun |-> d, approvalRequired |-> a, pendingTweets |-> p,
      calls |-> <<>>, dryRunLog |-> {}] :
        d \in BOOLEAN, a \in BOOLEAN, p \in {<<>>, <<NewPendingTweet>>}}

InitPost ==
    /\ InitSttTts
    /\ InitSpace
    /\ lastEvent = "off"
    /\ lastReport = NoReport
    /\ lastCheck = NoCheck
    /\ postClient \in StartedPostClients
    /\ requestQueue = NoRequests

\* A call that reaches the Twitter API: sendTweet or sendNoteTweet for a
\* new tweet ("tweet") or a reply ("reply"), likeTweet, retweet,
\* sendQuoteTweet.
Called(kinds) ==
    /\ Len(postClient.calls) + Len(kinds) <= MaxCalls
    /\ postClient' = [postClient EXCEPT !.calls = @ \o kinds]

\* The notice "Dry run: would have ..." for each of the kinds.
DryRunLogged(kinds) ==
    postClient' = [postClient EXCEPT
                      !.dryRunLog = @ \cup {kinds[k] : k \in 1..Len(kinds)}]

\* generateNewTweet(): the callback logs in dry-run mode, sends the tweet
\* for approval when approval is required (ok: the Discord message was
\* sent), and posts it otherwise.
GenerateNewTweet(ok) ==
    /\ IF postClient.isDryRun
       THEN DryRunLogged(<<"tweet">>)
       ELSE IF postClient.approvalRequired
            THEN /\ Len(postClient.pendingTweets) < MaxPending
                 /\ postClient' =
                        [postClient EXCEPT !.pendingTweets =
                            IF ok THEN Append(@, NewPendingTweet) ELSE @]
            ELSE Called(<<"tweet">>)
    /\ UNCHANGED <<pluginState, lastEvent, wavBuffer, spaceVars, requestQueue>>

\* The actions of one actionResponse, in the order processTimelineActions
\* takes them.
ActionKinds == <<"like", "retweet", "quote", "reply">>

ActionsOf(actionResponse) ==
    SelectSeq(ActionKinds, LAMBDA k : k \in actionResponse)

\* processTimelineActions for one tweet of the timeline: like, retweet,
\* quote and reply (handleTextOnlyReply), each only logged in dry-run mode.
ProcessTimelineActions(actionResponse) ==
    /\ IF postClient.isDryRun
       THEN DryRunLogged(ActionsOf(actionResponse))
       ELSE Called(ActionsOf(actionResponse))
    /\ UNCHANGED <<pluginState, lastEvent, wavBuffer, spaceVars, requestQueue>>

\* A user of the approval channel reacts to the message of pending tweet i.
Reaction(i, emoji) ==
    /\ i \in 1..Len(postClient.pendingTweets)
    /\ postClient' = [postClient EXCEPT !.pendingTweets[i][emoji] = TRUE]
    /\ UNCHANGED <<pluginState, lastEvent, wavBuffer, spaceVars, requestQueue>>

\* checkApprovalStatus: a reject reaction counts before a thumbs up.
CheckApprovalStatus(pendingTweet) ==
    IF pendingTweet.reject THEN "REJECTED"
    ELSE IF pendingTweet.thumbsUp THEN "APPROVED"
    ELSE "PENDING"

\* The loop of handlePendingTweet from pending tweet i on: kept are the
\* tweets that stay in the cache, posted counts the calls of postTweet.
\* An expired tweet is removed and ends the loop.
RECURSIVE PendingLoop(_, _, _, _, _)
PendingLoop(pendingTweets, expired, i, kept, posted) ==
    IF i > Len(pendingTweets)
    THEN [kept |-> kept, posted |-> posted]
    ELSE IF i \in expired
    THEN [kept |-> kept \o SubSeq(pendingTweets, i + 1, Len(pendingTweets)),
          posted |-> posted]
    ELSE IF CheckApprovalStatus(pendingTweets[i]) = "APPROVED"
    THEN PendingLoop(pendingTweets, expired, i + 1, kept,
                     Append(posted, "tweet"))
    ELSE IF CheckApprovalStatus(pendingTweets[i]) = "REJECTED"
    THEN PendingLoop(pendingTweets, expired, i + 1, kept, posted)
    ELSE PendingLoop(pendingTweets, expired, i + 1,
                     Append(kept, pendingTweets[i]), posted)

\* handlePendingTweet(), run by the interval that start() sets when
\* approval is required; the tweets in expired are older than 24 hours.
HandlePendingTweet(expired) ==
    /\ postClient.approvalRequired
    /\ LET done == PendingLoop(postClient.pendingTweets, expired, 1, <<>>,
                               <<>>)
       IN  /\ Len(postClient.calls) + Len(done.posted) <= MaxCalls
           /\ postClient' = [postClient EXCEPT
                                !.pendingTweets = done.kept,
                                !.calls = @ \o done.posted]
    /\ UNCHANGED <<pluginState, lastEvent, wavBuffer, spaceVars, requestQueue>>

NextPost ==
    \/ \E ok \in BOOLEAN : GenerateNewTweet(ok)
    \/ \E actionResponse \in SUBSET {"like", "retweet", "quote", "reply"} :
           ProcessTimelineActions(actionResponse)
    \/ \E i \in 1..MaxPending, emoji \in {"thumbsUp", "reject"} :
           Reaction(i, emoji)
    \/ \E expired \in SUBSET (1..MaxPending) : HandlePendingTweet(expired)

SpecPost == InitPost /\ [][NextPost]_vars

\* C30: in dry-run mode no call reaches the Twitter API.
DryRunPostsNothing == postClient.isDryRun => postClient.calls = <<>>

(***************************************************************************)
(* The content filter of handleUserMessage.                                *)
(***************************************************************************)

\* The transcripts of these runs: those of the other runs and the two long
\* ones that hold a word of the lists.
FilterResults == SttResults \cup {"longBanned", "longAck"}

NextFilter ==
    \/ \E u \in Speakers, f \in Frames : OnAudioData(u, f)
    \/ \E u \in Speakers : TimerFires(u)
    \/ \E i \in 1..MaxTurns, r \in FilterResults : SttReturns(i, r)
    \/ \E i \in 1..MaxTurns, ok \in BOOLEAN : StateReturns(i, ok)
    \/ \E i \in 1..MaxTurns, r \in ClassifierResults : ClassifyReturns(i, r)
    \/ \E i \in 1..MaxTurns, r \in GeneratorResults : GenerateReturns(i, r)
    \/ \E i \in 1..MaxTurns, ok \in BOOLEAN : PersistReturns(i, ok)
    \/ \E l \in Jobs, ok \in BOOLEAN : TtsReturns(l, ok)
    \/ \E l \in Jobs, ok \in BOOLEAN, n \in 0..MaxFrames : ConvertReturns(l, ok, n)
    \/ \E l \in Jobs : StreamWake(l)

SpecFilter == InitLogged /\ [][NextFilter]_vars

\* Turn i has passed the content filter: it is at the classifier, at the
\* generator or storing the reply.
PastFilter(i) == turns[i].pc \in {"classify", "generate", "persist"}

\* C31 as stated: a transcript that is shorter than the minimum, or holds a
\* disallowed phrase, or holds a short acknowledgement while below that
\* list's threshold never gets past the filter, and the turn it ends
\* enqueues no job.
FilterIgnoresEveryDisallowedPhrase ==
    /\ [](\A i \in 1..Len(turns) :
              PastFilter(i) =>
                  /\ TextOf(turns[i].text).length >= MIN_TEXT_LENGTH
                  /\ ~TextOf(turns[i].text).loseInterest
                  /\ ~(/\ TextOf(turns[i].text).ignoreWord
                       /\ TextOf(turns[i].text).length < IGNORE_WORDS_BELOW))
    /\ [][\A i \in 1..MaxTurns :
              TurnEndsAt(i, {"state"}) => NothingEnqueued]_vars

\* C31 amended: the disallowed phrases count only in a transcript of fewer
\* than 50 characters.
FilterIgnoresShortDisallowedPhrase ==
    /\ [](\A i \in 1..Len(turns) :
              PastFilter(i) =>
                  /\ TextOf(turns[i].text).length >= MIN_TEXT_LENGTH
                  /\ ~(/\ TextOf(turns[i].text).loseInterest
                       /\ TextOf(turns[i].text).length < LOSE_INTEREST_BELOW)
                  /\ ~(/\ TextOf(turns[i].text).ignoreWord
                       /\ TextOf(turns[i].text).length < IGNORE_WORDS_BELOW))
    /\ [][\A i \in 1..MaxTurns :
              TurnEndsAt(i, {"state"}) => NothingEnqueued]_vars

\* The filter has just ended a turn whose transcript it ignores (short, or
\* with a word of the lists below its bound): nothing is queued or plays.
TranscriptIgnoredByFilter ==
    /\ lastEvent = "ignored"
    /\ turns = <<>>
    /\ ~isProcessingAudio
    /\ nextJob = 1
    /\ ttsQueue = <<>>
    /\ pcmBuffers["u1"] = <<>>

(***************************************************************************)
(* A room that others fill past the cap.                                   *)
(***************************************************************************)
\* Users the host of the room makes speakers without asking the manager.
Guests == {MaxRequests + 1, MaxRequests + 2}

\* The request the transport raises in these runs.
KickRequests == {1}

\* Guest g becomes a speaker of room x: the room's own list, which
\* getAudioSpaceById reports as participants.speakers, gets one more entry.
GuestJoins(x, g) ==
    /\ x \in liveRooms
    /\ \A k \in 1..Len(janusSpeakers[x]) : janusSpeakers[x][k] # g
    /\ janusSpeakers' = [janusSpeakers EXCEPT ![x] = Append(@, g)]
    /\ UNCHANGED <<isSpaceRunning, currentSpace, spaceId, startedAt,
                   lastSpaceEndedAt, activeSpeakers, speakerQueue,
                   decisionOptions, now, nextRoom, liveRooms, handlersOn,
                   routine, reqs, idle>>
    /\ UNCHANGED <<pluginVars, lastReport, lastCheck>>

NextKick ==
    \/ NextLaunch
    \/ \E x \in Rooms, g \in Guests : GuestJoins(x, g)
    \/ \E r \in KickRequests : SpeakerRequest(r)
    \/ \E r \in KickRequests, k \in {"throws", "none", "list"} :
           ReqReportReturns(r, k)
    \/ \E r \in KickRequests, ok \in BOOLEAN : ReqFillerReturns(r, ok)
    \/ \E r \in KickRequests : ReqApproveReturns(r)
    \/ EvictReturns
    \/ EvictFillerReturns
    \/ PreAcceptReturns
    \/ ApproveReturns
    \/ KickReturns

SpecKick == InitManaged /\ [][NextKick]_vars

\* The tick calls removeSpeaker from kickExtraSpeakers in this step: for
\* the first of the extras, or for the next one.
KickCallStep ==
    /\ routine'.pc = "kick"
    /\ routine.pc = "kick" => routine'.extras # routine.extras

\* The speakers a report lists past the first maxSpeakers, in its order.
PastTheCap(speakers) ==
    [k \in 1..(Len(speakers) - decisionOptions.maxSpeakers) |->
        speakers[k + decisionOptions.maxSpeakers]]

NextOrphan ==
    \/ \E u \in Users, f \in Frames : OnAudioData(u, f)
    \/ \E u \in Users : TimerFires(u)
    \/ \E u \in Users : OrphanTimerFires(u)
    \/ Cleanup
    \/ \E i \in 1..MaxTurns, r \in SttResults : SttReturns(i, r)

SpecOrphan == Init /\ [][NextOrphan]_vars

\* A timer of speaker u expires in this step and its callback runs a
\* processAudio that finds no chunk of u.
EmptyFlushStep(u) ==
    /\ ~isProcessingAudio
    /\ pcmBuffers[u] = <<>>
    /\ \/ userSpeakingTimer = u /\ userSpeakingTimer' = "null"
       \/ orphanTimers'[u] < orphanTimers[u]

\* C33: a flush for a speaker with no buffered chunk is a no-op.  It starts
\* no turn (so no transcription, classification or generation), enqueues no
\* job and starts no loop, leaves the buffered chunks of every other speaker
\* as they are, and leaves the busy flag false.
EmptyFlushIsNoOp ==
    [][\A u \in Users :
          EmptyFlushStep(u) =>
              /\ turns' = turns
              /\ NothingEnqueued
              /\ \A v \in Users \ {u} : pcmBuffers'[v] = pcmBuffers[v]
              /\ ~isProcessingAudio']_vars

(***************************************************************************)
(* The cancellation token of the job in flight.                            *)
(***************************************************************************)
\* C34: while a playback loop is synthesizing, transcoding or streaming a
\* job, the shared field ttsAbortController holds the token that was made
\* for that job: it is not null, and no step of another loop or of a job
\* that is over has replaced or cleared it.
TokenFieldHoldsJobInFlight ==
    \A l \in Jobs : loops[l].pc # "idle" => ttsAbortController = l

(***************************************************************************)
(* The bookkeeping of a manager without a room.                            *)
(***************************************************************************)
\* C35: whenever no room is running (the manager is Idle), the
\* active-speaker set and the admission queue are empty, also after a
\* speakerRequest handler, an admission from the queue or a tick that
\* began before stopSpace has resumed.
IdleManagerKeepsNoSpeakers ==
    ManagerIdle => activeSpeakers = <<>> /\ speakerQueue = <<>>

(***************************************************************************)
(* Two stopSpace calls for one room.                                       *)
(***************************************************************************)
\* C36: Space.stop() is called at most once for a room, also when the
\* tick and the idleTimeout handler both come to stopSpace.  stopSpace
\* clears the room reference when its stop() is over, so that a second call
\* for the same room can only be made while the first is awaited: never are
\* the stop() of the tick and that of the handler both in flight.
StopCalledOncePerRoom ==
    ~(routine.pc = "stopping" /\ idle.pc = "stopping")

(***************************************************************************)
(* A request that arrives behind the admission queue.                      *)
(***************************************************************************)
\* The manager with its speaker requests, in runs in which the event loop
\* goes on as long as a handler, a timer or an event is left to run.
SpecAdmitFair == SpecAdmit /\ WF_vars(NextAdmit)

\* Request q waits in the admission queue.
Queued(q) == \E k \in 1..Len(speakerQueue) : speakerQueue[k] = q

\* C37: a speaker request that arrives while earlier requests wait in the
\* admission queue is not admitted ahead of them.  If request q waits in
\* the queue when request r has not arrived yet, then r is never approved
\* as a speaker while q still waits in the queue.
NoAdmissionAheadOfQueue ==
    \A q \in Requests : \A r \in Requests \ {q} :
        [](Queued(q) /\ reqs[r].pc = "new" =>
               [](~(Queued(q) /\ reqs[r].pc = "approved")))

(***************************************************************************)
(* Playback and the cleanup of the plugin.                                 *)
(***************************************************************************)
\* The playback side of the plugin up to and after its cleanup; nothing is
\* given to speakText once cleanup has run, so that every job is one that
\* was queued or in flight when it ran.
SpeakBeforeCleanup == ~cleanedUp /\ SpeakFiller

NextStop ==
    \/ SpeakBeforeCleanup
    \/ \E u \in Speakers, f \in Frames : OnAudioData(u, f)
    \/ \E l \in Jobs, ok \in BOOLEAN : TtsReturns(l, ok)
    \/ \E l \in Jobs, ok \in BOOLEAN, n \in 0..MaxFrames : ConvertReturns(l, ok, n)
    \/ \E l \in Jobs : StreamWake(l)
    \/ Cleanup

SpecStop == Init /\ [][NextStop]_vars

\* C38: cleanup stops the playback.  Once cleanup has run, the queue of
\* jobs is empty (the queued jobs are discarded) and no frame of a job that
\* was queued or in flight is pushed to the transport.
CleanupStopsPlayback ==
    /\ [](cleanedUp => ttsQueue = <<>>)
    /\ [][cleanedUp => \A l \in Jobs : ~PushStep(l)]_vars

(***************************************************************************)
(* The grace period of an empty room.                                      *)
(***************************************************************************)
\* The last report before this step was one of the running room, it showed
\* a speaker or a listener, and it is no older than the grace period.
PresentWithinGrace ==
    /\ lastReport.ok
    /\ lastReport.now0 >= startedAt
    /\ lastReport.speakers > 0 \/ lastReport.listeners > 0
    /\ now - lastReport.now0 <= EMPTY_ROOM_MINUTES

\* C39: a tick stops a room for emptiness only when the room has been
\* without speakers and listeners for longer than the grace period.  A tick
\* on a room under its typical-duration budget, in which the tick before
\* reported a speaker or a listener less than the grace period ago, does
\* not go on to stop the room, whatever the age of the room.
EmptyStopOnlyAfterGrace ==
    [][(/\ routine.pc = "report"
        /\ startedAt # 0
        /\ now - startedAt <= decisionOptions.typicalDurationMinutes
        /\ PresentWithinGrace) =>
           routine'.pc # "closing"]_vars

(***************************************************************************)
(* RequestQueue.                                                           *)
(***************************************************************************)
\* A wrapper that lets the error of its request through to processQueue.
WrapperRethrows(ok) == ~ok

\* Whether the function add puts in the queue throws when its request
\* settles: it catches the error of the request and rejects the promise.
WrapperThrows(ok) == FALSE

\* The head of the while loop of processQueue: the next function is
\* shifted off the queue and called, which calls its request; or the loop
\* is over and processing is reset.
ProcessQueueLoop(rq) ==
    IF rq.queue # <<>>
    THEN [rq EXCEPT !.queue = Tail(@),
                    !.called = Append(@, Head(rq.queue)),
                    !.pc = "request"]
    ELSE [rq EXCEPT !.processing = FALSE, !.pc = "idle"]

\* processQueue(), up to its first await.
ProcessQueue(rq) ==
    IF rq.processing \/ rq.queue = <<>>
    THEN rq
    ELSE ProcessQueueLoop([rq EXCEPT !.processing = TRUE])

\* add(request): the requests are numbered in the order they are added.
Add ==
    /\ requestQueue.added < MaxAdds
    /\ requestQueue' =
           ProcessQueue([requestQueue EXCEPT
                            !.added = @ + 1,
                            !.promise = Append(@, "pending"),
                            !.queue = Append(@, requestQueue.added + 1)])
    /\ UNCHANGED <<pluginState, lastEvent, wavBuffer, postClient, spaceVars>>

\* The request that processQueue awaits returns (ok) or throws: its promise
\* is resolved or rejected.  If the function throws, processQueue puts it
\* back at the head of the queue and backs off; then the random delay is
\* awaited (the two waits change nothing and are one position here).
RequestSettles(ok) ==
    /\ requestQueue.pc = "request"
    /\ LET id == requestQueue.called[Len(requestQueue.called)]
       IN  requestQueue' =
               [requestQueue EXCEPT
                   !.promise[id] = IF ok THEN "resolved" ELSE "rejected",
                   !.queue = IF WrapperThrows(ok) THEN <<id>> \o @ ELSE @,
                   !.pc = "delay"]
    /\ UNCHANGED <<pluginState, lastEvent, wavBuffer, postClient, spaceVars>>

\* The delay is over: the while loop goes on.
DelayEnds ==
    /\ requestQueue.pc = "delay"
    /\ requestQueue' = ProcessQueueLoop(requestQueue)
    /\ UNCHANGED <<pluginState, lastEvent, wavBuffer, postClient, spaceVars>>

NextRequests ==
    \/ Add
    \/ \E ok \in BOOLEAN : RequestSettles(ok)
    \/ DelayEnds

\* The queue, with requests that settle and timers that expire.
SpecRequests ==
    /\ Init
    /\ [][NextRequests]_vars
    /\ WF_vars(\E ok \in BOOLEAN : RequestSettles(ok))
    /\ WF_vars(DelayEnds)

\* The requests that have been called and whose promise is pending.
RunningRequests ==
    {k \in 1..Len(requestQueue.called) :
        requestQueue.promise[requestQueue.called[k]] = "pending"}

\* C40: the queue runs its requests one at a time, in the order they were
\* added, each exactly once.  The requests called so far are the first
\* requests added, in that order and none twice; at most one of them has
\* not settled; a request that failed has its promise rejected and is not
\* in the queue again; and whatever the requests before it did, every
\* request that was added is called and settles.
RequestsRunOnceInOrder ==
    /\ [](/\ \A k \in 1..Len(requestQueue.called) :
                requestQueue.called[k] = k
          /\ Cardinality(RunningRequests) <= 1
          /\ \A k \in 1..Len(requestQueue.queue) :
                requestQueue.promise[requestQueue.queue[k]] = "pending"
          /\ requestQueue.pc = "idle" => requestQueue.queue = <<>>)
    /\ \A i \in 1..MaxAdds :
           (requestQueue.added >= i) ~>
               (/\ requestQueue.added >= i
                /\ requestQueue.promise[i] \in {"resolved", "rejected"}
                /\ \E k \in 1..Len(requestQueue.called) :
                       requestQueue.called[k] = i)

\* The first request failed and was rejected, the second was called after
\* it and resolved, and the third, added while they ran, is being called.
LaterRequestsRunAfterFailure ==
    /\ requestQueue.promise = <<"rejected", "resolved", "pending">>
    /\ requestQueue.called = <<1, 2, 3>>
    /\ requestQueue.pc = "request"
    /\ requestQueue.queue = <<>>

====
